---- MODULE Spec2Model ----
(***************************************************************************)
(* State-machine model of the VelocityPulse agent coordinator              *)
(* (dist/index.js): the heartbeat, scan and status-check loops, command    *)
(* processing and the UI scan_now handler, over the shared segment table,  *)
(* device table and hysteresis maps.                                       *)
(*                                                                         *)
(* One action is one run of JavaScript between two awaits: the event loop  *)
(* runs a continuation to its next await without interleaving.             *)
(* Objects held by reference (segment state objects, DeviceInfo objects)   *)
(* are modelled by an "attached"/"detached" flag on every holder: a holder *)
(* is attached while the object it captured is still the one stored in the *)
(* shared Map, and detached once the Map entry was deleted or replaced.    *)
(***************************************************************************)
EXTENDS Integers, Sequences, FiniteSets, TLC

VARIABLES
    now,                  \* Date.now(), in scan-interval units
    network,              \* hosts that exist on the scanned network (environment)
    segmentStates,        \* Map id -> {segment, lastScan, scanning}, in insertion order
    scanLoop,             \* scanLoop(): position and locals
    discoveredDevices,    \* Map ip -> DeviceInfo, in insertion order
    deviceFailureCounts,  \* Map ip -> consecutive suppressed failures
    lastKnownStatus,      \* Map ip -> last reported status
    statusLoop,           \* statusCheckLoop(): position and locals
    offlineRun,           \* history: raw-offline observations since the last raw-online one
    config,               \* the mutable config object
    cmdProcs,             \* running processCommands() invocations
    nextCmd,              \* number of command ids issued by the controller so far
    ackLog,               \* per command id: the acknowledgeCommand / sendPong calls made
    uiProcs,              \* running UI 'command' handlers
    uiCount,              \* number of UI commands received so far
    exited,               \* process.exit() was called
    executed,             \* history: per command id, the executions started
    heartbeat,            \* heartbeatLoop(): its position, retryDelay, the wait it chose, the UI's connected
    calc,                 \* a call of a function checked on its own: arguments, position, result
    discovery,            \* one discoverDevices() call: its position and the devices it enriches
    remote,               \* remoteMonitorLoop(): its position, its clock and remoteDeviceLastCheck
    realtime,             \* realtimeClient: its fields, its channels, timers and running reconnects
    shutdown              \* isRunning, the position of shutdown(), and the positions of the four loops

vars == <<now, network, segmentStates, scanLoop, discoveredDevices,
          deviceFailureCounts, lastKnownStatus, statusLoop, offlineRun, config,
          cmdProcs, nextCmd, ackLog, uiProcs, uiCount, exited, executed, heartbeat, calc,
          discovery,
          remote,
          realtime,
          shutdown>>

\* ---------------------------------------------------------------- bounds
ScanInterval == 1     \* segment.scan_interval_seconds, in clock units
TimeSteps == 1        \* clock ticks explored after start
MaxCmds == 2          \* commands the controller issues (command processing)
MaxBatch == 2         \* commands in one pending_commands array
ScanCmds == 1         \* scan commands the controller issues (scanning)
MaxUiCmds == 1        \* UI commands received
MaxRuns == 2          \* deliveries of one command id
MaxThreshold == 2     \* largest statusFailureThreshold an update_config carries

StartTime == ScanInterval
MaxTime == StartTime + TimeSteps

None == "none"        \* undefined / key absent
NoCalc == [fn |-> "none"]   \* no call of a pure function
\* no discoverDevices() call is running
NoDiscovery == [pc |-> "idle", pending |-> {}, devices |-> <<>>, i |-> 0]
MaxChannels == 3      \* connect() calls explored
MaxSetups == 2        \* setupRealtimeClient calls explored
MaxReconnects == 2    \* disconnect-then-connect sequences running at a time
\* let realtimeClient = null
NoRealtime ==
    [exists |-> FALSE, creds |-> 0, client |-> 0, channel |-> 0, connected |-> FALSE,
     reconnectTimer |-> FALSE, timers |-> <<>>,
     chans |-> [c \in 1..MaxChannels |-> "free"], next |-> 1,
     unsub |-> 0, remove |-> 0, owed |-> FALSE, setups |-> 0]
\* remoteMonitorLoop has not been started
NoRemote == [pc |-> "off"]

\* the loops main() starts with Promise.all([...])
LoopNames == {"heartbeatLoop", "scanLoop", "statusCheckLoop", "remoteMonitorLoop"}

\* let isRunning = true; no signal was received, no loop was started
NoShutdown ==
    [isRunning |-> TRUE, pc |-> "idle", order |-> <<>>, hadClient |-> FALSE,
     loops |-> [l \in LoopNames |-> "off"]]
NoCount == 0 - 1      \* deviceFailureCounts has no entry for the key
NoRun == [n |-> NoCount, stable |-> FALSE]   \* no raw-online observation yet
NoVersion == <<>>     \* payload without target_version

\* a JavaScript value of a payload field: its typeof and its value as a
\* number, a string or a boolean
Undefined == [typeof |-> "undefined", val |-> 0, str |-> "", bool |-> FALSE]
Str == [typeof |-> "string", val |-> 0, str |-> "0", bool |-> FALSE]
Num(n) == [typeof |-> "number", val |-> n, str |-> "", bool |-> FALSE]
StrOf(x) == [typeof |-> "string", val |-> 0, str |-> x, bool |-> FALSE]
Bool(b) == [typeof |-> "boolean", val |-> 0, str |-> "", bool |-> b]

SegIds == {"segA", "segB"}
CmdIds == 1..MaxCmds

\* IPv4 addresses as their four octets
Host1 == <<10, 0, 0, 1>>
Host2 == <<10, 0, 0, 2>>
HostBcast == <<10, 0, 0, 255>>
HostNet == <<10, 0, 1, 0>>
AllHosts == {Host1, Host2, HostBcast, HostNet}

Range(s) == {s[i] : i \in 1..Len(s)}

\* all sequences without repetition over the set S (an array a call may return)
RECURSIVE Arrays(_)
Arrays(S) ==
    IF S = {} THEN {<<>>}
    ELSE {<<>>} \cup UNION {{<<x>> \o t : t \in Arrays(S \ {x})} : x \in S}

\* ------------------------------------------------------- segment table
NewSegmentState(id) == [id |-> id, lastScan |-> 0, scanning |-> FALSE]

HasSegment(segs, id) == \E i \in 1..Len(segs) : segs[i].id = id

\* segmentStates.get(id): the position of the entry, 0 when absent
SegIndex(segs, id) ==
    IF HasSegment(segs, id) THEN CHOOSE i \in 1..Len(segs) : segs[i].id = id ELSE 0

\* first position after `from` among the positions free (the entries the
\* loop does not skip), 0 when none
FirstAfter(from, free) ==
    LET C == {j \in free : j > from}
    IN IF C = {} THEN 0 ELSE CHOOSE j \in C : \A k \in C : j <= k

\* if (state.scanning) continue
NotScanning(segs) == {j \in 1..Len(segs) : ~segs[j].scanning}

\* A holder of a segment state object: cursor is the position of the
\* entry it is processing, attached is whether that object is still in the Map.
\* finally { state.scanning = false }
ReleaseBroken(segs, h) == segs
Release(segs, h) ==
    IF h.attached THEN [segs EXCEPT ![h.cursor].scanning = FALSE] ELSE segs

\* the holder after the heartbeat deleted the entries whose id is not in keep
Rebase(segs, keep, h) ==
    [h EXCEPT !.cursor = Cardinality({i \in 1..@ : segs[i].id \in keep}),
              !.attached = @ /\ h.cursor > 0 /\ segs[h.cursor].id \in keep]

RECURSIVE AddSegments(_, _)
AddSegments(segs, resp) ==
    IF resp = <<>> THEN segs
    ELSE AddSegments(IF HasSegment(segs, Head(resp)) THEN segs
                     ELSE Append(segs, NewSegmentState(Head(resp))),
                     Tail(resp))

\* heartbeatLoop: remove old segments, then add the new ones
SegmentDiff(segs, resp) ==
    AddSegments(SelectSeq(segs, LAMBDA e : e.id \in Range(resp)), resp)

\* -------------------------------------------------------- device table
\* status: existing?.status || 'unknown'
\* inUi: uiServer.state.devices holds this object
NewDeviceInfo(ip, existingStatus) ==
    [ip |-> ip, status |-> IF existingStatus = None THEN "unknown" ELSE existingStatus,
     inUi |-> FALSE]

DevIndex(tab, ip) ==
    IF \E i \in 1..Len(tab) : tab[i].ip = ip
    THEN CHOOSE i \in 1..Len(tab) : tab[i].ip = ip ELSE 0

\* for (const device of devices) discoveredDevices.set(deviceKey, deviceInfo)
RECURSIVE MergeDevices(_, _)
MergeDevices(tab, devs) ==
    IF devs = <<>> THEN tab
    ELSE LET ip == Head(devs)
             i == DevIndex(tab, ip)
         IN MergeDevices(IF i = 0 THEN Append(tab, NewDeviceInfo(ip, None))
                         ELSE [tab EXCEPT ![i] = NewDeviceInfo(ip, tab[i].status)],
                         Tail(devs))

\* uiServer.updateDevices(Array.from(discoveredDevices.values()))
updateDevices(tab) == [k \in 1..Len(tab) |-> [tab[k] EXCEPT !.inUi = TRUE]]

\* the table made anew from the devices of the scan
MergedTableFresh(tab, devs) == updateDevices(MergeDevices(<<>>, devs))

\* scanLoop: for (const device of devices) { ... discoveredDevices.set(...) },
\* then uiServer.updateDevices(...)
MergedTable(tab, devs) == updateDevices(MergeDevices(tab, devs))

\* uiServer.updateDeviceStatus on a UI state that holds copies of the
\* DeviceInfo objects: the objects of the Map are not written
updateDeviceStatusOfCopies(tab, deviceId, status) == tab

\* uiServer.updateDeviceStatus(deviceId, status): state.devices.find(d => d.id === deviceId)
updateDeviceStatus(tab, deviceId, status) ==
    [k \in 1..Len(tab) |->
        IF tab[k].ip = deviceId /\ tab[k].inUi THEN [tab[k] EXCEPT !.status = status]
        ELSE tab[k]]

\* the status loop's allDevices array after a merge replaced the objects of
\* devs in the Map: the array keeps the old objects, which are written to
\* but never read again
DetachSnapshot(sl, devs) ==
    IF sl.pc # "probe" THEN sl
    ELSE [sl EXCEPT !.all = [k \in 1..Len(sl.all) |->
            IF sl.all[k].ip \in Range(devs)
            THEN [sl.all[k] EXCEPT !.detached = TRUE]
            ELSE sl.all[k]]]

\* ------------------------------------------------------------ scanLoop
ScanDue(e, t) == ~e.scanning /\ ~((t - e.lastScan) < ScanInterval)

\* the for-of loop of scanLoop from the entry after `from` to its next await
ScanLoopIterate(segs, sl, from) ==
    LET j == FirstAfter(from, {k \in 1..Len(segs) : ScanDue(segs[k], sl.now)})
    IN IF j = 0
       THEN [segs |-> segs,
             sl |-> [sl EXCEPT !.pc = "sleep", !.cursor = 0, !.attached = FALSE,
                               !.seg = None]]
       ELSE [segs |-> [segs EXCEPT ![j].scanning = TRUE, ![j].lastScan = sl.now],
             sl |-> [sl EXCEPT !.pc = "discover", !.cursor = j, !.attached = TRUE,
                               !.seg = segs[j].id]]

\* finally, then the rest of the pass
ScanLoopFinish ==
    LET r == ScanLoopIterate(Release(segmentStates, scanLoop), scanLoop, scanLoop.cursor)
    IN /\ segmentStates' = r.segs
       /\ scanLoop' = r.sl

\* the 5 s sleep ends: const now = Date.now(); for (const [id, state] of segmentStates)
ScanLoopWake ==
    /\ ~exited
    /\ scanLoop.pc = "sleep"
    /\ LET r == ScanLoopIterate(segmentStates, [scanLoop EXCEPT !.now = now], 0)
       IN /\ segmentStates' = r.segs
          /\ scanLoop' = r.sl
    /\ UNCHANGED <<now, network, discoveredDevices, deviceFailureCounts, lastKnownStatus,
                   statusLoop, offlineRun, config, cmdProcs, nextCmd, ackLog,
                   uiProcs, uiCount, exited, executed, heartbeat, calc, discovery,
                   remote, realtime, shutdown>>

\* await discoverDevices(...) resolves with the array devs
ScanLoopDiscovered ==
    /\ ~exited
    /\ scanLoop.pc = "discover"
    /\ \E devs \in Arrays(network) :
        /\ discoveredDevices' = MergedTable(discoveredDevices, devs)
        /\ statusLoop' = DetachSnapshot(statusLoop, devs)
        /\ IF Len(devs) > 0
           THEN /\ scanLoop' = [scanLoop EXCEPT !.pc = "upload"]
                /\ UNCHANGED segmentStates
           ELSE ScanLoopFinish
    /\ UNCHANGED <<now, network, deviceFailureCounts, lastKnownStatus, offlineRun,
                   config, cmdProcs, nextCmd, ackLog, uiProcs, uiCount, exited, executed, heartbeat, calc,
                   discovery, remote, realtime, shutdown>>

\* await discoverDevices(...) rejects: catch, finally
ScanLoopDiscoverFailed ==
    /\ ~exited
    /\ scanLoop.pc = "discover"
    /\ ScanLoopFinish
    /\ UNCHANGED <<now, network, discoveredDevices, deviceFailureCounts, lastKnownStatus,
                   statusLoop, offlineRun, config, cmdProcs, nextCmd, ackLog,
                   uiProcs, uiCount, exited, executed, heartbeat, calc, discovery,
                   remote, realtime, shutdown>>

\* await client.uploadDiscoveredDevices(...) resolves or rejects: finally
ScanLoopUploaded ==
    /\ ~exited
    /\ scanLoop.pc = "upload"
    /\ ScanLoopFinish
    /\ UNCHANGED <<now, network, discoveredDevices, deviceFailureCounts, lastKnownStatus,
                   statusLoop, offlineRun, config, cmdProcs, nextCmd, ackLog,
                   uiProcs, uiCount, exited, executed, heartbeat, calc, discovery,
                   remote, realtime, shutdown>>

\* time passes
Tick ==
    /\ ~exited
    /\ now < MaxTime
    /\ now' = now + 1
    /\ UNCHANGED <<network, segmentStates, scanLoop, discoveredDevices,
                   deviceFailureCounts, lastKnownStatus, statusLoop, offlineRun, config,
                   cmdProcs, nextCmd, ackLog, uiProcs, uiCount, exited, executed, heartbeat, calc,
                   discovery, remote, realtime, shutdown>>

\* ----------------------------------------------------- statusCheckLoop
\* deviceKey.endsWith('.255') || deviceKey.endsWith('.0')
IsBroadcastOnly255(ip) == ip # <<>> /\ ip[Len(ip)] = 255
IsBroadcast(ip) == ip # <<>> /\ (ip[Len(ip)] = 255 \/ ip[Len(ip)] = 0)

\* !deviceKey || deviceKey === '---'
IsPlaceholder(ip) == ip = <<>>

RunCap == MaxThreshold + 2

\* the history of raw observations of one device
ObserveRun(run, raw) ==
    IF raw = "online" THEN [n |-> 0, stable |-> TRUE]
    ELSE IF run = NoRun THEN NoRun
    ELSE [run EXCEPT !.n = IF @ < RunCap THEN @ + 1 ELSE @]

\* Apply hysteresis for status changes: the reported status and the new
\* failure count (None: the Map entry is left as it is)
HysteresisOffByOne(raw, previousStatus, failureCount, threshold) ==
    IF raw = "offline" /\ previousStatus = "online"
    THEN IF failureCount <= threshold
         THEN [status |-> "online", count |-> failureCount + 1]
         ELSE [status |-> "offline", count |-> NoCount]
    ELSE IF raw = "online" THEN [status |-> "online", count |-> 0]
    ELSE [status |-> raw, count |-> NoCount]
HysteresisUnknownAsOnline(raw, previousStatus, failureCount, threshold) ==
    IF raw = "offline" /\ previousStatus # "offline"
    THEN IF failureCount < threshold
         THEN [status |-> "online", count |-> failureCount + 1]
         ELSE [status |-> "offline", count |-> NoCount]
    ELSE IF raw = "online" THEN [status |-> "online", count |-> 0]
    ELSE [status |-> raw, count |-> NoCount]
HysteresisDebounceOnline(raw, previousStatus, failureCount, threshold) ==
    IF raw = "offline" /\ previousStatus = "online"
    THEN IF failureCount < threshold
         THEN [status |-> "online", count |-> failureCount + 1]
         ELSE [status |-> "offline", count |-> NoCount]
    ELSE IF raw = "online"
    THEN [status |-> IF previousStatus = "offline" THEN "offline" ELSE "online",
          count |-> 0]
    ELSE [status |-> raw, count |-> NoCount]
HysteresisNoSuppression(raw, previousStatus, failureCount, threshold) ==
    IF raw = "online" THEN [status |-> "online", count |-> 0]
    ELSE [status |-> raw, count |-> NoCount]
Hysteresis(raw, previousStatus, failureCount, threshold) ==
    IF raw = "offline" /\ previousStatus = "online"
    THEN IF failureCount < threshold
         THEN [status |-> "online", count |-> failureCount + 1]
         ELSE [status |-> "offline", count |-> NoCount]
    ELSE IF raw = "online" THEN [status |-> "online", count |-> 0]
    ELSE [status |-> raw, count |-> NoCount]

\* pruneDeviceTracking(activeKeys): for (const key of deviceFailureCounts.keys())
pruneResetAll(fc, lks, activeKeys) ==
    [fc |-> [ip \in AllHosts |-> NoCount], lks |-> [ip \in AllHosts |-> None]]
pruneDeviceTracking(fc, lks, activeKeys) ==
    LET stale == {ip \in AllHosts : fc[ip] # NoCount /\ ip \notin activeKeys}
    IN [fc |-> [ip \in AllHosts |-> IF ip \in stale THEN NoCount ELSE fc[ip]],
        lks |-> [ip \in AllHosts |-> IF ip \in stale THEN None ELSE lks[ip]]]

\* statusCheckLoop between two cycles
StatusLoopIdle ==
    [pc |-> "sleep", all |-> <<>>, idx |-> 0, activeKeys |-> {}, reports |-> <<>>,
     dash |-> {}, deviceKey |-> <<>>, probeResult |-> None, previousStatus |-> None,
     status |-> None, wait |-> 0, caught |-> FALSE]

\* await new Promise(resolve => setTimeout(resolve, config.statusCheckInterval))
StatusSleeping == [StatusLoopIdle EXCEPT !.wait = config.statusCheckInterval]

\* a catch block that also forgets the failure counts and last statuses
StatusCaughtForgets(S) ==
    [S EXCEPT !.sl = [StatusSleeping EXCEPT !.caught = TRUE],
              !.fc = [ip \in AllHosts |-> NoCount],
              !.lks = [ip \in AllHosts |-> None]]

\* catch (error) { logger.error(...) }, then the sleep at the end of the
\* iteration
StatusCaught(S) == [S EXCEPT !.sl = [StatusSleeping EXCEPT !.caught = TRUE]]

\* The part of the shared state the status loop reads and writes
StatusWorld ==
    [tab |-> discoveredDevices, fc |-> deviceFailureCounts, lks |-> lastKnownStatus,
     run |-> offlineRun, sl |-> statusLoop]

\* device.status = status on the object the allDevices array holds at k,
\* then uiServer.updateDeviceStatus(deviceKey, status, ...)
WriteStatus(S, k, status) ==
    LET deviceKey == S.sl.all[k].ip
        tab1 == IF S.sl.all[k].detached THEN S.tab
                ELSE [S.tab EXCEPT ![DevIndex(S.tab, deviceKey)].status = status]
    IN [S EXCEPT !.tab = updateDeviceStatus(tab1, deviceKey, status)]

\* the end of the for loop: prune, then upload the reports if there are any
StatusEndCycle(S) ==
    LET pr == pruneDeviceTracking(S.fc, S.lks, S.sl.activeKeys)
    IN [S EXCEPT !.tab = updateDevices(S.tab),
                 !.fc = pr.fc, !.lks = pr.lks,
                 !.sl.idx = 0,
                 !.sl.wait = IF Len(S.sl.reports) > 0 THEN 0 ELSE config.statusCheckInterval,
                 !.sl.pc = IF Len(S.sl.reports) > 0 THEN "upload" ELSE "sleep"]

\* for (const device of allDevices): from position k to the next await
RECURSIVE StatusAdvance(_, _)
StatusAdvance(S, k) ==
    IF k > Len(S.sl.all) THEN StatusEndCycle(S)
    ELSE LET deviceKey == S.sl.all[k].ip
         IN IF IsPlaceholder(deviceKey) THEN StatusAdvance(S, k + 1)
            ELSE IF IsBroadcast(deviceKey)
            THEN StatusAdvance(WriteStatus(S, k, "offline"), k + 1)
            ELSE [S EXCEPT !.sl.activeKeys = @ \cup {deviceKey},
                           !.sl.pc = "probe", !.sl.idx = k]

\* the probe of the device at idx gave raw: hysteresis, device update, report
StatusObserve(S, raw) ==
    LET k == S.sl.idx
        deviceKey == S.sl.all[k].ip
        previousStatus == S.lks[deviceKey]
        failureCount == IF S.fc[deviceKey] = NoCount THEN 0 ELSE S.fc[deviceKey]
        h == Hysteresis(raw, previousStatus, failureCount, config.statusFailureThreshold)
        S1 == [S EXCEPT !.fc[deviceKey] = IF h.count = NoCount THEN @ ELSE h.count,
                        !.lks[deviceKey] = h.status,
                        !.run[deviceKey] = ObserveRun(@, raw),
                        !.sl.deviceKey = deviceKey,
                        !.sl.probeResult = raw,
                        !.sl.previousStatus = previousStatus,
                        !.sl.status = h.status,
                        !.sl.reports = IF deviceKey \in S.sl.dash
                                       THEN Append(@, [ip |-> deviceKey, status |-> h.status])
                                       ELSE @]
    IN WriteStatus(S1, k, h.status)

StatusCommit(S) ==
    /\ discoveredDevices' = S.tab
    /\ deviceFailureCounts' = S.fc
    /\ lastKnownStatus' = S.lks
    /\ offlineRun' = S.run
    /\ statusLoop' = S.sl

StatusFrame == UNCHANGED <<now, network, segmentStates, scanLoop, config, cmdProcs,
                           nextCmd, ackLog, uiProcs, uiCount, exited, executed, heartbeat, calc,
                           discovery, remote, realtime, shutdown>>

\* the statusCheckInterval sleep ends: client.getDevicesToMonitor() is called
StatusWake ==
    /\ ~exited
    /\ statusLoop.pc = "sleep"
    /\ statusLoop' = [StatusLoopIdle EXCEPT !.pc = "fetch"]
    /\ UNCHANGED <<discoveredDevices, deviceFailureCounts, lastKnownStatus, offlineRun>>
    /\ StatusFrame

\* getDevicesToMonitor resolves; dash are the IPs of the devices it returned
StatusFetched ==
    /\ ~exited
    /\ statusLoop.pc = "fetch"
    /\ \E dash \in SUBSET network :
        LET allDevices == [k \in 1..Len(discoveredDevices) |->
                             [ip |-> discoveredDevices[k].ip, detached |-> FALSE]]
        IN IF Len(allDevices) = 0
           THEN StatusCommit([StatusWorld EXCEPT !.sl = StatusSleeping])
           ELSE StatusCommit(StatusAdvance(
                    [StatusWorld EXCEPT !.sl.all = allDevices, !.sl.dash = dash], 1))
    /\ StatusFrame

\* getDevicesToMonitor rejects: catch, sleep
StatusFetchFailed ==
    /\ ~exited
    /\ statusLoop.pc = "fetch"
    /\ StatusCommit(StatusCaught(StatusWorld))
    /\ StatusFrame

\* await multiProbe(deviceKey) resolves with status raw (a rejection is
\* caught and counts as offline)
StatusProbed ==
    /\ ~exited
    /\ statusLoop.pc = "probe"
    /\ \E raw \in {"online", "offline"} :
        StatusCommit(StatusAdvance(StatusObserve(StatusWorld, raw), statusLoop.idx + 1))
    /\ StatusFrame

\* await client.uploadStatusReports(reports) resolves or rejects: sleep
StatusUploaded ==
    /\ ~exited
    /\ statusLoop.pc = "upload"
    /\ StatusCommit([StatusWorld EXCEPT !.sl = StatusSleeping])
    /\ StatusFrame

\* ------------------------------------------------------------- version
VERSION == <<1, 0, 0>>

\* A version string is modelled by the numbers its dot-separated parts
\* parse to: v.replace(/^v/, '').split('.').map(n => parseInt(n, 10) || 0)
Part(v, i) == IF i <= Len(v) THEN v[i] ELSE 0

\* compareVersions(a, b): -1, 0 or 1; the shorter version is padded with 0
compareVersions(a, b) ==
    LET maxLen == IF Len(a) > Len(b) THEN Len(a) ELSE Len(b)
        D == {i \in 1..maxLen : Part(a, i) # Part(b, i)}
    IN IF D = {} THEN 0
       ELSE LET i == CHOOSE k \in D : \A m \in D : k <= m
            IN IF Part(a, i) < Part(b, i) THEN -1 ELSE 1

isNewerVersion(latest, current) == compareVersions(latest, current) > 0

\* parseVersion(version): the first three parts, a missing one is 0
parseVersion(version) ==
    [major |-> Part(version, 1), minor |-> Part(version, 2), patch |-> Part(version, 3)]

isMajorUpgrade(latest, current) ==
    parseVersion(latest).major > parseVersion(current).major

isMinorUpgrade(latest, current) ==
    /\ parseVersion(latest).major = parseVersion(current).major
    /\ parseVersion(latest).minor > parseVersion(current).minor

\* shouldAutoUpgrade with minor upgrades always allowed
shouldAutoUpgradeMinorAlways(latest, current, autoUpgradeOnMinor) ==
    IF ~isNewerVersion(latest, current) THEN FALSE
    ELSE IF isMajorUpgrade(latest, current) THEN FALSE
    ELSE TRUE

\* shouldAutoUpgrade without the block on major upgrades
shouldAutoUpgradeAllowMajor(latest, current, autoUpgradeOnMinor) ==
    IF ~isNewerVersion(latest, current) THEN FALSE
    ELSE IF isMinorUpgrade(latest, current) THEN autoUpgradeOnMinor
    ELSE TRUE

shouldAutoUpgrade(latest, current, autoUpgradeOnMinor) ==
    IF ~isNewerVersion(latest, current) THEN FALSE
    ELSE IF isMajorUpgrade(latest, current) THEN FALSE
    ELSE IF isMinorUpgrade(latest, current) THEN autoUpgradeOnMinor
    ELSE TRUE

\* ---------------------------------------------------- processCommands
CmdTypes == {"ping", "scan_now", "scan_segment", "restart", "upgrade",
             "update_config", "bogus"}

NoPayload == [segment_id |-> None, target_version |-> NoVersion, download_url |-> None,
              heartbeatInterval |-> Undefined, statusCheckInterval |-> Undefined,
              statusFailureThreshold |-> Undefined, logLevel |-> Undefined,
              enableAutoScan |-> Undefined, autoScanInterval |-> Undefined]

\* the versions an upgrade command names: a patch, a minor and a major
\* release after VERSION (1.0.0)
TargetVersions == {<<1, 0, 1>>, <<1, 1, 0>>, <<2, 0, 0>>}

\* payloads the controller sends with a command of type t
Payloads(t) ==
    CASE t = "scan_segment" ->
            {[NoPayload EXCEPT !.segment_id = s] : s \in SegIds \cup {None}}
      [] t = "update_config" ->
            {[NoPayload EXCEPT !.statusFailureThreshold = v] :
                v \in {Num(n) : n \in (0 - 1)..MaxThreshold} \cup {Undefined, Str}}
      [] t = "upgrade" ->
            {[NoPayload EXCEPT !.target_version = v, !.download_url = u] :
                v \in {NoVersion} \cup TargetVersions, u \in {None, "url"}}
      [] OTHER -> {NoPayload}

\* typeof v === 'number' taken to hold of strings too
IsNumberOrString(v) == v.typeof \in {"number", "string"}

\* typeof v === 'number'
IsNumber(v) == v.typeof = "number"

\* one processCommands(commands) invocation
NewCmdProc(commands) ==
    [queue |-> commands, pc |-> "start", cursor |-> 0, attached |-> FALSE, seg |-> None,
     run |-> 0]

\* The part of the shared state a command handler reads and writes, with
\* the invocation p itself
World(p) ==
    [segs |-> segmentStates, cfg |-> config, acks |-> ackLog, exec |-> executed, p |-> p]

\* client.acknowledgeCommand(command.id, success, result, error) is called
AckCall(w, success, info) ==
    [w EXCEPT !.acks[Head(w.p.queue).id] =
                  Append(@, [call |-> "ack", success |-> success, info |-> info])]

\* client.sendPong(command.id) is called
PongCall(w) ==
    [w EXCEPT !.acks[Head(w.p.queue).id] =
                  Append(@, [call |-> "pong", success |-> TRUE, info |-> "pong"])]

\* catch (error) { await client.acknowledgeCommand(command.id, false, undefined, errorMsg) }
Catch(w) == [AckCall(w, FALSE, "error") EXCEPT !.p.pc = "catchAck"]

\* case 'scan_now': the for-of loop from the entry after `from` to its next await
ScanNowIterate(w, from) ==
    LET j == FirstAfter(from, NotScanning(w.segs))
    IN IF j = 0
       THEN [AckCall(w, TRUE, "scan_now completed") EXCEPT
                !.p.pc = "ack", !.p.cursor = 0, !.p.attached = FALSE, !.p.seg = None]
       ELSE [w EXCEPT !.segs[j].scanning = TRUE,
                      !.p.pc = "discover", !.p.cursor = j, !.p.attached = TRUE,
                      !.p.seg = w.segs[j].id]

\* case 'scan_segment'
ScanSegmentStart(w, c) ==
    LET segmentId == c.payload.segment_id
        i == SegIndex(w.segs, segmentId)
    IN IF segmentId = None
       THEN [AckCall(w, FALSE, "segment_id required") EXCEPT !.p.pc = "ack"]
       ELSE IF i = 0
       THEN [AckCall(w, FALSE, "Segment not found") EXCEPT !.p.pc = "ack"]
       ELSE IF w.segs[i].scanning
       THEN [AckCall(w, FALSE, "Segment already scanning") EXCEPT !.p.pc = "ack"]
       ELSE [w EXCEPT !.segs[i].scanning = TRUE,
                      !.p.pc = "segDiscover", !.p.cursor = i, !.p.attached = TRUE,
                      !.p.seg = segmentId]

\* case 'upgrade' with performUpgrade(...) called without awaiting the
\* acknowledgment
UpgradeStartNoAwait(w, c) ==
    LET targetVersion == c.payload.target_version
        downloadUrl == c.payload.download_url
    IN IF targetVersion = NoVersion \/ downloadUrl = None
       THEN [AckCall(w, FALSE, "target_version and download_url required")
                EXCEPT !.p.pc = "ack"]
       ELSE IF ~w.cfg.enableAutoUpgrade
       THEN [AckCall(w, TRUE, "Auto-upgrade disabled - manual upgrade required")
                EXCEPT !.p.pc = "ack"]
       ELSE IF ~shouldAutoUpgrade(targetVersion, VERSION, w.cfg.autoUpgradeOnMinor)
       THEN [AckCall(w, TRUE, "Upgrade blocked by policy (major version change)")
                EXCEPT !.p.pc = "ack"]
       ELSE [AckCall(w, TRUE, "Upgrade starting...") EXCEPT !.p.pc = "upgrade"]

\* case 'upgrade', up to the first acknowledgment
UpgradeStart(w, c) ==
    LET targetVersion == c.payload.target_version
        downloadUrl == c.payload.download_url
    IN IF targetVersion = NoVersion \/ downloadUrl = None
       THEN [AckCall(w, FALSE, "target_version and download_url required")
                EXCEPT !.p.pc = "ack"]
       ELSE IF ~w.cfg.enableAutoUpgrade
       THEN [AckCall(w, TRUE, "Auto-upgrade disabled - manual upgrade required")
                EXCEPT !.p.pc = "ack"]
       ELSE IF ~shouldAutoUpgrade(targetVersion, VERSION, w.cfg.autoUpgradeOnMinor)
       THEN [AckCall(w, TRUE, "Upgrade blocked by policy (major version change)")
                EXCEPT !.p.pc = "ack"]
       ELSE [AckCall(w, TRUE, "Upgrade starting...") EXCEPT !.p.pc = "ackUpgrade"]

\* ['debug', 'info', 'warn', 'error']
LogLevels == {"debug", "info", "warn", "error"}

\* case 'update_config': the six validated assignments to config and to
\* applied; a field that is not applied is absent from applied
ApplyUpdates(cfg, updates) ==
    LET none == [heartbeatInterval |-> Undefined, statusCheckInterval |-> Undefined,
                 statusFailureThreshold |-> Undefined, logLevel |-> Undefined,
                 enableAutoScan |-> Undefined, autoScanInterval |-> Undefined]
        r0 == [cfg |-> cfg, applied |-> none]
        r1 == IF IsNumber(updates.heartbeatInterval) /\ updates.heartbeatInterval.val >= 10
              THEN [r0 EXCEPT !.cfg.heartbeatInterval = updates.heartbeatInterval.val * 1000,
                              !.applied.heartbeatInterval = updates.heartbeatInterval]
              ELSE r0
        r2 == IF IsNumber(updates.statusCheckInterval)
                    /\ updates.statusCheckInterval.val >= 5
              THEN [r1 EXCEPT !.cfg.statusCheckInterval =
                                    updates.statusCheckInterval.val * 1000,
                              !.applied.statusCheckInterval = updates.statusCheckInterval]
              ELSE r1
        r3 == IF IsNumber(updates.statusFailureThreshold)
                    /\ updates.statusFailureThreshold.val >= 0
              THEN [r2 EXCEPT !.cfg.statusFailureThreshold =
                                    updates.statusFailureThreshold.val,
                              !.applied.statusFailureThreshold =
                                    updates.statusFailureThreshold]
              ELSE r2
        r4 == IF updates.logLevel.typeof = "string" /\ updates.logLevel.str \in LogLevels
              THEN [r3 EXCEPT !.cfg.logLevel = updates.logLevel.str,
                              !.applied.logLevel = updates.logLevel]
              ELSE r3
        r5 == IF updates.enableAutoScan.typeof = "boolean"
              THEN [r4 EXCEPT !.cfg.enableAutoScan = updates.enableAutoScan.bool,
                              !.applied.enableAutoScan = updates.enableAutoScan]
              ELSE r4
        r6 == IF IsNumber(updates.autoScanInterval) /\ updates.autoScanInterval.val >= 30
              THEN [r5 EXCEPT !.cfg.autoScanInterval = updates.autoScanInterval.val,
                              !.applied.autoScanInterval = updates.autoScanInterval]
              ELSE r5
    IN r6

\* case 'update_config'
UpdateConfig(w, c) ==
    [AckCall([w EXCEPT !.cfg = ApplyUpdates(w.cfg, c.payload).cfg], TRUE, "applied")
        EXCEPT !.p.pc = "ack"]

\* switch (command.command_type), up to the first await of the case
Dispatch(w, c) ==
    CASE c.type = "ping" -> [PongCall(w) EXCEPT !.p.pc = "pong"]
      [] c.type = "scan_now" ->
            ScanNowIterate(w, 0)
      [] c.type = "scan_segment" -> ScanSegmentStart(w, c)
      [] c.type = "restart" ->
            [AckCall(w, TRUE, "restarting") EXCEPT !.p.pc = "ackRestart"]
      [] c.type = "upgrade" -> UpgradeStart(w, c)
      [] c.type = "update_config" -> UpdateConfig(w, c)
      [] OTHER -> [AckCall(w, FALSE, "Unknown command") EXCEPT !.p.pc = "ack"]

\* for (const command of commands): from the head of the queue to the next await
RECURSIVE CmdRun(_)
CmdRun(w) ==
    IF w.p.queue = <<>> THEN [w EXCEPT !.p.pc = "done"]
    ELSE IF Head(w.p.queue).status # "pending"
    THEN CmdRun([w EXCEPT !.p.queue = Tail(@)])
    ELSE LET c == Head(w.p.queue)
         IN Dispatch([w EXCEPT !.exec[c.id] = @ + 1, !.p.run = w.exec[c.id] + 1], c)

\* the current command is finished: go on with the next one
NextCommand(w) ==
    CmdRun([w EXCEPT !.p.queue = Tail(@), !.p.cursor = 0, !.p.attached = FALSE,
                     !.p.seg = None])

\* the history variable follows a change of the threshold
RunAfterConfig(cfg) ==
    IF cfg.statusFailureThreshold = config.statusFailureThreshold THEN offlineRun
    ELSE [ip \in AllHosts |-> [offlineRun[ip] EXCEPT !.stable = FALSE]]

\* the state after invocation p ran to w
Commit(p, w) ==
    /\ segmentStates' = w.segs
    /\ config' = w.cfg
    /\ offlineRun' = RunAfterConfig(w.cfg)
    /\ ackLog' = w.acks
    /\ executed' = w.exec
    /\ cmdProcs' = (cmdProcs \ {p}) \cup (IF w.p.pc = "done" THEN {} ELSE {w.p})

\* commands the controller issues next: fresh ids, types from the set types
Commands(types, id) ==
    UNION {{[id |-> id, type |-> t, status |-> st, payload |-> pl] :
               st \in {"pending", "completed"}, pl \in Payloads(t)} : t \in types}

RECURSIVE BatchesFrom(_, _, _)
BatchesFrom(types, id, n) ==
    IF n = 0 THEN {<<>>}
    ELSE {<<c>> \o b : c \in Commands(types, id), b \in BatchesFrom(types, id + 1, n - 1)}

Batches(types) == UNION {BatchesFrom(types, nextCmd + 1, n) : n \in 1..MaxBatch}

\* the number of command ids issued once commands were delivered
IssuedWith(commands) ==
    LET ids == {commands[k].id : k \in 1..Len(commands)} \cup {nextCmd}
    IN CHOOSE m \in ids : \A k \in ids : k <= m

\* commands the controller still holds as pending although the agent has
\* them: delivered to an invocation that has not made any acknowledgment
\* call for them yet
Unacknowledged ==
    {c \in UNION {Range(p.queue) : p \in cmdProcs} :
        c.status = "pending" /\ ackLog[c.id] = <<>>}

\* A delivery of commands (push channel onCommand, or pending_commands of a
\* heartbeat): processCommands(commands) runs to its first await
Deliver(commands) ==
    LET p == NewCmdProc(commands)
    IN /\ nextCmd' = IssuedWith(commands)
       /\ Commit(p, CmdRun(World(p)))

\* an await of the invocation p resolves
CmdPonged(p) == p.pc = "pong" /\ Commit(p, NextCommand(World(p)))

CmdAcked(p) ==
    /\ p.pc \in {"ack", "catchAck"}
    /\ Commit(p, NextCommand(World(p)))

\* ... or rejects inside the try block
CmdCallFailed(p) ==
    /\ p.pc \in {"pong", "ack", "ackRestart", "ackUpgrade"}
    /\ Commit(p, Catch(World(p)))

\* the acknowledgment in the catch block rejects: logged only
CmdCatchAckFailed(p) == p.pc = "catchAck" /\ Commit(p, NextCommand(World(p)))

\* scan_now: await discoverDevices resolves with n devices
CmdDiscovered(p, n) ==
    /\ p.pc = "discover"
    /\ LET w == World(p)
       IN Commit(p, IF n > 0 THEN [w EXCEPT !.p.pc = "upload"]
                    ELSE ScanNowIterate([w EXCEPT !.segs = Release(w.segs, p)], p.cursor))

\* scan_now: await client.uploadDiscoveredDevices resolves
CmdUploaded(p) ==
    /\ p.pc = "upload"
    /\ LET w == World(p)
       IN Commit(p, ScanNowIterate([w EXCEPT !.segs = Release(w.segs, p)], p.cursor))

\* scan_now / scan_segment: an await inside try { } finally { } rejects
CmdScanFailed(p) ==
    /\ p.pc \in {"discover", "upload", "segDiscover", "segUpload", "segAck"}
    /\ LET w == World(p)
       IN Commit(p, Catch([w EXCEPT !.segs = Release(w.segs, p)]))

\* scan_segment: await discoverDevices resolves with n devices
CmdSegDiscovered(p, n) ==
    /\ p.pc = "segDiscover"
    /\ LET w == World(p)
       IN Commit(p, IF n > 0 THEN [w EXCEPT !.p.pc = "segUpload"]
                    ELSE [AckCall(w, TRUE, "scan_segment completed")
                            EXCEPT !.p.pc = "segAck"])

\* scan_segment: await client.uploadDiscoveredDevices resolves
CmdSegUploaded(p) ==
    /\ p.pc = "segUpload"
    /\ Commit(p, [AckCall(World(p), TRUE, "scan_segment completed")
                    EXCEPT !.p.pc = "segAck"])

\* scan_segment: the acknowledgment resolves: finally, break
CmdSegAcked(p) ==
    /\ p.pc = "segAck"
    /\ LET w == World(p)
       IN Commit(p, NextCommand([w EXCEPT !.segs = Release(w.segs, p)]))

\* restart: the acknowledgment resolves; the 1 s wait starts
CmdRestartAcked(p) ==
    /\ p.pc = "ackRestart"
    /\ Commit(p, [World(p) EXCEPT !.p.pc = "restartWait"])

\* upgrade: the acknowledgment resolves; performUpgrade(...) is called
CmdUpgradeAcked(p) ==
    /\ p.pc = "ackUpgrade"
    /\ Commit(p, [World(p) EXCEPT !.p.pc = "upgrade"])

\* upgrade: performUpgrade returned its result (it catches its own errors)
CmdUpgradeReturned(p) == p.pc = "upgrade" /\ Commit(p, NextCommand(World(p)))

\* what a command step leaves alone
CmdFrame == UNCHANGED <<now, network, scanLoop, discoveredDevices, deviceFailureCounts,
                        lastKnownStatus, statusLoop, uiProcs, uiCount, exited, heartbeat,
                        calc, discovery, remote, realtime, shutdown>>

\* the push channel hands one pending command to onCommand
RealtimeCommand(types, max) ==
    /\ ~exited
    /\ nextCmd < max
    /\ \E b \in Batches(types) :
        /\ Len(b) = 1
        /\ b[1].status = "pending"
        /\ Deliver(b)
    /\ CmdFrame

CmdAwaitResolved ==
    /\ ~exited
    /\ \E p \in cmdProcs :
        \/ CmdPonged(p)
        \/ CmdAcked(p)
        \/ CmdUploaded(p)
        \/ CmdSegUploaded(p)
        \/ CmdSegAcked(p)
        \/ CmdRestartAcked(p)
        \/ CmdUpgradeAcked(p)
        \/ CmdUpgradeReturned(p)
    /\ nextCmd' = nextCmd
    /\ CmdFrame

CmdDiscoverResolved ==
    /\ ~exited
    /\ \E p \in cmdProcs : \E n \in 0..Cardinality(network) :
        CmdDiscovered(p, n) \/ CmdSegDiscovered(p, n)
    /\ nextCmd' = nextCmd
    /\ CmdFrame

CmdAwaitRejected ==
    /\ ~exited
    /\ \E p \in cmdProcs :
        CmdCallFailed(p) \/ CmdCatchAckFailed(p) \/ CmdScanFailed(p)
    /\ nextCmd' = nextCmd
    /\ CmdFrame

\* restart: the 1 s wait ends: process.exit(0).
\* upgrade: performUpgrade spawned the swap script and called process.exit(0)
ProcessExit ==
    /\ ~exited
    /\ \E p \in cmdProcs : p.pc \in {"restartWait", "upgrade"}
    /\ exited' = TRUE
    /\ UNCHANGED <<now, network, segmentStates, scanLoop, discoveredDevices,
                   deviceFailureCounts, lastKnownStatus, statusLoop, offlineRun, config,
                   cmdProcs, nextCmd, ackLog, uiProcs, uiCount, executed, heartbeat,
                   calc, discovery, remote, realtime, shutdown>>

\* ------------------------------------------------------- heartbeatLoop
BaseRetryDelay == 2000        \* let retryDelay = 2000
MaxRetryDelay == 60000        \* Math.min(retryDelay * 2, 60000)
MaxHeartbeatWait == 60000     \* Math.min(config.heartbeatInterval, 60000)

Min(a, b) == IF a < b THEN a ELSE b

\* the wait at the end of an iteration of the while loop
HeartbeatWait(hb, cfg) == Min(cfg.heartbeatInterval, MaxHeartbeatWait)

\* try { ... } with the loop awaiting the commands it dispatched
HeartbeatSucceededAwaiting(hb, w) ==
    IF w.p.pc = "done"
    THEN [pc |-> "wait", retryDelay |-> BaseRetryDelay, wait |-> HeartbeatWait(hb, w.cfg),
          connected |-> TRUE]
    ELSE [hb EXCEPT !.pc = "commands", !.connected = TRUE]

\* try { ... processCommands(...).catch(...) ... retryDelay = 2000 }, then
\* the wait; w is the state processCommands left at its first await
HeartbeatSucceeded(hb, w) ==
    [pc |-> "wait", retryDelay |-> BaseRetryDelay, wait |-> HeartbeatWait(hb, w.cfg),
     connected |-> TRUE]

\* a catch block without uiServer.updateConnection(false)
HeartbeatCaughtSilent(hb, cfg) ==
    LET hb1 == [hb EXCEPT !.retryDelay = Min(@ * 2, MaxRetryDelay)]
    IN [hb1 EXCEPT !.pc = "wait", !.wait = HeartbeatWait(hb1, cfg)]

\* catch { uiServer.updateConnection(false); ...
\* retryDelay = Math.min(retryDelay * 2, 60000) }, then the wait
HeartbeatCaught(hb, cfg) ==
    LET hb1 == [hb EXCEPT !.connected = FALSE, !.retryDelay = Min(@ * 2, MaxRetryDelay)]
    IN [hb1 EXCEPT !.pc = "wait", !.wait = HeartbeatWait(hb1, cfg)]

\* A heartbeat response arrives with the segment ids resp and the array
\* commands as pending_commands: segment diff, then processCommands(...)
\* runs to its first await
HeartbeatOK(resp, commands) ==
    LET keep == Range(resp)
        w0 == [segs |-> SegmentDiff(segmentStates, resp), cfg |-> config,
               acks |-> ackLog, exec |-> executed, p |-> NewCmdProc(commands)]
        w == IF Len(commands) > 0 THEN CmdRun(w0) ELSE [w0 EXCEPT !.p.pc = "done"]
    IN /\ segmentStates' = w.segs
       /\ config' = w.cfg
       /\ offlineRun' = RunAfterConfig(w.cfg)
       /\ ackLog' = w.acks
       /\ nextCmd' = IssuedWith(commands)
       /\ scanLoop' = Rebase(segmentStates, keep, scanLoop)
       /\ cmdProcs' = {Rebase(segmentStates, keep, p) : p \in cmdProcs}
                        \cup (IF w.p.pc = "done" THEN {} ELSE {w.p})
       /\ uiProcs' = {Rebase(segmentStates, keep, u) : u \in uiProcs}
       /\ executed' = w.exec
       /\ heartbeat' = HeartbeatSucceeded(heartbeat, w)
       /\ UNCHANGED <<now, network, discoveredDevices, deviceFailureCounts,
                      lastKnownStatus, statusLoop, uiCount, exited, calc, discovery,
                      remote, realtime, shutdown>>

Heartbeat(resps, types, max) ==
    /\ ~exited
    /\ heartbeat.pc = "wait"
    /\ \E resp \in resps :
        \E b \in {<<>>} \cup (IF nextCmd < max THEN Batches(types) ELSE {}) :
            nextCmd + Len(b) <= max /\ HeartbeatOK(resp, b)

\* a heartbeat response lists in pending_commands a command the agent
\* already has (the controller keeps it pending until it is acknowledged)
HeartbeatPending(resps) ==
    /\ ~exited
    /\ heartbeat.pc = "wait"
    /\ \E resp \in resps, c \in Unacknowledged :
        /\ executed[c.id] < MaxRuns
        /\ HeartbeatOK(resp, <<c>>)

\* await client.heartbeat(VERSION, hostname) rejects after the wait: catch
HeartbeatFailed ==
    /\ ~exited
    /\ heartbeat.pc = "wait"
    /\ heartbeat' = HeartbeatCaught(heartbeat, config)
    /\ UNCHANGED <<now, network, segmentStates, scanLoop, discoveredDevices,
                   deviceFailureCounts, lastKnownStatus, statusLoop, offlineRun, config,
                   cmdProcs, nextCmd, ackLog, uiProcs, uiCount, exited, executed, calc,
                   discovery, remote, realtime, shutdown>>

\* the push channel hands over a command the agent already has from a
\* heartbeat (its INSERT event arrives after the heartbeat response)
RealtimePending ==
    /\ ~exited
    /\ \E c \in Unacknowledged :
        /\ executed[c.id] < MaxRuns
        /\ Deliver(<<c>>)
    /\ CmdFrame

\* ------------------------------------------------ UI 'command' handler
\* case 'scan_now': the for-of loop from the entry after `from` to its next await
UiIterate(segs, u, from) ==
    LET j == FirstAfter(from, NotScanning(segs))
    IN IF j = 0
       THEN [segs |-> segs, u |-> [u EXCEPT !.pc = "done"]]
       ELSE [segs |-> [segs EXCEPT ![j].scanning = TRUE],
             u |-> [u EXCEPT !.pc = "discover", !.cursor = j, !.attached = TRUE,
                             !.seg = segs[j].id]]

UiCommit(u, r) ==
    /\ segmentStates' = r.segs
    /\ uiProcs' = (uiProcs \ {u}) \cup (IF r.u.pc = "done" THEN {} ELSE {r.u})

UiFrame == UNCHANGED <<now, network, scanLoop, deviceFailureCounts, lastKnownStatus,
                       offlineRun, config, cmdProcs, nextCmd, ackLog, exited, executed, heartbeat, calc,
                       discovery, remote, realtime, shutdown>>

\* socket.on('command') with cmd.type = 'scan_now'
UiScanNow ==
    /\ ~exited
    /\ uiCount < MaxUiCmds
    /\ uiCount' = uiCount + 1
    /\ LET u == [tok |-> uiCount + 1, pc |-> "start", cursor |-> 0, attached |-> FALSE,
                 seg |-> None]
       IN UiCommit(u, UiIterate(segmentStates, u, 0))
    /\ UNCHANGED <<discoveredDevices, statusLoop>>
    /\ UiFrame

\* await discoverDevices resolves with the array devs
UiDiscovered ==
    /\ ~exited
    /\ \E u \in uiProcs : \E devs \in Arrays(network) :
        /\ u.pc = "discover"
        /\ discoveredDevices' = updateDevices(MergeDevices(discoveredDevices, devs))
        /\ statusLoop' = DetachSnapshot(statusLoop, devs)
        /\ IF Len(devs) > 0
           THEN UiCommit(u, [segs |-> segmentStates, u |-> [u EXCEPT !.pc = "upload"]])
           ELSE UiCommit(u, UiIterate(Release(segmentStates, u), u, u.cursor))
    /\ uiCount' = uiCount
    /\ UiFrame

\* await client.uploadDiscoveredDevices resolves: finally, next segment
UiUploaded ==
    /\ ~exited
    /\ \E u \in uiProcs :
        /\ u.pc = "upload"
        /\ UiCommit(u, UiIterate(Release(segmentStates, u), u, u.cursor))
    /\ UNCHANGED <<discoveredDevices, statusLoop, uiCount>>
    /\ UiFrame

\* an await inside try { } finally { } rejects: finally, then the outer catch
UiScanFailed ==
    /\ ~exited
    /\ \E u \in uiProcs :
        /\ u.pc \in {"discover", "upload"}
        /\ UiCommit(u, [segs |-> Release(segmentStates, u), u |-> [u EXCEPT !.pc = "done"]])
    /\ UNCHANGED <<discoveredDevices, statusLoop, uiCount>>
    /\ UiFrame

\* ------------------------------------------------------ initial states
DefaultConfig ==
    [heartbeatInterval |-> 60000, statusCheckInterval |-> 30000,
     statusFailureThreshold |-> 2, logLevel |-> "info", enableAutoScan |-> TRUE,
     autoScanInterval |-> 300, enableAutoUpgrade |-> FALSE, autoUpgradeOnMinor |-> TRUE]

\* main(), before the loops start
\* the agent's state after construction, apart from calc
InitState ==
    /\ now = StartTime
    /\ segmentStates = <<>>
    /\ scanLoop = [pc |-> "sleep", cursor |-> 0, attached |-> FALSE, seg |-> None, now |-> 0]
    /\ discoveredDevices = <<>>
    /\ deviceFailureCounts = [ip \in AllHosts |-> NoCount]
    /\ lastKnownStatus = [ip \in AllHosts |-> None]
    /\ statusLoop = StatusLoopIdle
    /\ offlineRun = [ip \in AllHosts |-> NoRun]
    /\ cmdProcs = {}
    /\ nextCmd = 0
    /\ ackLog = [c \in CmdIds |-> <<>>]
    /\ uiProcs = {}
    /\ uiCount = 0
    /\ exited = FALSE
    /\ executed = [c \in CmdIds |-> 0]
    /\ heartbeat = [pc |-> "wait", retryDelay |-> BaseRetryDelay, wait |-> 0,
                    connected |-> FALSE]
    /\ discovery = NoDiscovery
    /\ remote = NoRemote
    /\ realtime = NoRealtime
    /\ shutdown = NoShutdown

InitAgent == InitState /\ calc = NoCalc

\* ---------------------------------------------------------------------
\* Scanning: the heartbeat assigns and removes segments while the scan
\* loop, scan commands and the UI scan them
ScanCmdTypes == {"scan_now", "scan_segment"}

InitScan ==
    /\ InitAgent
    /\ network = {Host1}
    /\ config = DefaultConfig

HeartbeatScan == Heartbeat(Arrays(SegIds), ScanCmdTypes, ScanCmds)
RealtimeScan == RealtimeCommand(ScanCmdTypes, ScanCmds)

NextScan ==
    \/ HeartbeatScan
    \/ RealtimeScan
    \/ Tick
    \/ ScanLoopWake
    \/ ScanLoopDiscovered
    \/ ScanLoopDiscoverFailed
    \/ ScanLoopUploaded
    \/ CmdAwaitResolved
    \/ CmdDiscoverResolved
    \/ CmdAwaitRejected
    \/ UiScanNow
    \/ UiDiscovered
    \/ UiUploaded
    \/ UiScanFailed

SpecScan == InitScan /\ [][NextScan]_vars

\* the segment state objects on which a scan operation is in flight
LoopScans == IF scanLoop.pc \in {"discover", "upload"} THEN {scanLoop} ELSE {}
CmdScans ==
    {p \in cmdProcs : p.pc \in {"discover", "upload", "segDiscover", "segUpload", "segAck"}}
UiScans == {u \in uiProcs : u.pc \in {"discover", "upload"}}

ScansInFlight(id) ==
    Cardinality({h \in LoopScans : h.seg = id})
    + Cardinality({h \in CmdScans : h.seg = id})
    + Cardinality({h \in UiScans : h.seg = id})

\* C1: at any time at most one scan operation is in flight for a segment id,
\* whichever scheduler started it and also when the segment was removed and
\* assigned again while its scan was running
C1_OneScanPerSegment == \A id \in SegIds : ScansInFlight(id) <= 1

\* C2: a segment whose scanning flag is set has a scan operation in flight
\* that holds its state object: every scan that set the flag clears it on
\* every exit path, so no segment stays locked
C2_FlagHasScan ==
    \A i \in 1..Len(segmentStates) :
        segmentStates[i].scanning =>
            \E h \in LoopScans \cup CmdScans \cup UiScans :
                h.attached /\ h.cursor = i /\ h.seg = segmentStates[i].id

\* a scan command whose discovery or upload threw is in its catch block and
\* the segment it had locked is free again
C2_Witness ==
    \E p \in cmdProcs :
        /\ p.pc = "catchAck"
        /\ p.attached
        /\ segmentStates[p.cursor].id = p.seg
        /\ ~segmentStates[p.cursor].scanning

\* ---------------------------------------------------------------------
\* Status checks: one segment is scanned, the status loop probes what the
\* scans found, and update_config commands change the failure threshold
StatusNetworks == {{Host1, Host2}, {Host1, HostBcast, HostNet}}

InitStatus ==
    /\ InitAgent
    /\ network \in StatusNetworks
    /\ \E t \in 0..MaxThreshold : config = [DefaultConfig EXCEPT !.statusFailureThreshold = t]

HeartbeatStatus == Heartbeat({<<"segA">>}, {}, 0)

NextStatus ==
    \/ HeartbeatStatus
    \/ Tick
    \/ ScanLoopWake
    \/ ScanLoopDiscovered
    \/ ScanLoopDiscoverFailed
    \/ ScanLoopUploaded
    \/ StatusWake
    \/ StatusFetched
    \/ StatusFetchFailed
    \/ StatusProbed
    \/ StatusUploaded

SpecStatus == InitStatus /\ [][NextStatus]_vars

\* ------------------------------------------------ status-check properties
\* the DeviceInfo status the device table holds for ip
TableStatus(tab, ip) == tab[DevIndex(tab, ip)].status

\* the failure count the hysteresis reads: deviceFailureCounts.get(ip) || 0
CountOf(fc, ip) == IF fc[ip] = NoCount THEN 0 ELSE fc[ip]

\* this step is the status loop taking up the result of the probe of ProbedKey
ProbeStep ==
    /\ statusLoop.pc = "probe"
    /\ statusLoop'.pc # "probe" \/ statusLoop'.idx # statusLoop.idx
ProbedKey == statusLoop.all[statusLoop.idx].ip

\* the report pushed by this step, if the dashboard tracks the probed device
ReportOfStep ==
    IF ProbedKey \in statusLoop.dash
    THEN {statusLoop'.reports[Len(statusLoop'.reports)]}
    ELSE {}

\* the step reports the probed device with status st: lastKnownStatus, the
\* device table and the report (if there is one) all carry st
ReportedAs(st) ==
    /\ statusLoop'.status = st
    /\ lastKnownStatus'[ProbedKey] = st
    /\ TableStatus(discoveredDevices', ProbedKey) = st
    /\ \A r \in ReportOfStep : r = [ip |-> ProbedKey, status |-> st]
    /\ ProbedKey \in statusLoop.dash => Len(statusLoop'.reports) = Len(statusLoop.reports) + 1

\* C3: with threshold T, a device that was observed online and then gave n
\* consecutive raw-offline results is still reported online while n <= T and
\* is reported offline from the (T+1)-th on
C3_Hysteresis ==
    \A ip \in AllHosts :
        LET run == offlineRun[ip]
            T == config.statusFailureThreshold
        IN run # NoRun /\ run.stable =>
            /\ run.n <= T => lastKnownStatus[ip] = "online"
                             /\ TableStatus(discoveredDevices, ip) = "online"
            /\ run.n > T => lastKnownStatus[ip] = "offline"
                            /\ TableStatus(discoveredDevices, ip) = "offline"

\* threshold 2: the third consecutive failure has just flipped Host1
C3_Witness ==
    /\ config.statusFailureThreshold = 2
    /\ offlineRun[Host1] = [n |-> 3, stable |-> TRUE]
    /\ lastKnownStatus[Host1] = "offline"
    /\ deviceFailureCounts[Host1] = 2

\* C5: a raw online result is reported online in the same check and sets the
\* failure count to 0; a failure count grows only in the check of a raw
\* offline result of a device whose previous reported status was online
C5_OnlineImmediate ==
    [][/\ ProbeStep /\ statusLoop'.probeResult = "online" =>
            /\ ReportedAs("online")
            /\ deviceFailureCounts'[ProbedKey] = 0
       /\ \A ip \in AllHosts :
            CountOf(deviceFailureCounts', ip) > CountOf(deviceFailureCounts, ip) =>
                /\ ProbeStep
                /\ ip = ProbedKey
                /\ statusLoop'.probeResult = "offline"
                /\ lastKnownStatus[ip] = "online"
                /\ deviceFailureCounts'[ip] = CountOf(deviceFailureCounts, ip) + 1]_vars

\* an offline device with a failure count of 2 was just observed online
C5_Witness ==
    /\ statusLoop.deviceKey = Host1
    /\ statusLoop.probeResult = "online"
    /\ statusLoop.previousStatus = "offline"
    /\ statusLoop.status = "online"
    /\ lastKnownStatus[Host1] = "online"
    /\ deviceFailureCounts[Host1] = 0
    /\ offlineRun[Host2].n = 1

\* C6: a raw offline result of a device whose previous reported status is
\* offline or not recorded is reported offline in the same check, and its
\* failure count stays as it is
C6_OfflineImmediate ==
    [][ProbeStep /\ statusLoop'.probeResult = "offline"
                 /\ lastKnownStatus[ProbedKey] # "online" =>
            /\ ReportedAs("offline")
            /\ deviceFailureCounts'[ProbedKey] = deviceFailureCounts[ProbedKey]]_vars

\* a device never seen online was just observed offline
C6_Witness ==
    /\ statusLoop.deviceKey = Host1
    /\ statusLoop.probeResult = "offline"
    /\ statusLoop.previousStatus = None
    /\ statusLoop.status = "offline"
    /\ lastKnownStatus[Host1] = "offline"
    /\ deviceFailureCounts[Host1] = NoCount

\* the failed probe of this step is a single one: the observation before it,
\* if there was one, was not a failure
SingleFailedProbe ==
    /\ ProbeStep
    /\ config.statusFailureThreshold = 2
    /\ statusLoop'.probeResult = "offline"
    /\ offlineRun[ProbedKey].n <= 0

\* C7: after a scan discovered a device, a single failed probe with
\* threshold 2 leaves its reported status online, in the report too
C7_SingleFailureStaysOnline ==
    [][SingleFailedProbe => ReportedAs("online")]_vars

\* C7 for a device whose latest status check reported it online
C7_SingleFailureAfterOnline ==
    [][SingleFailedProbe /\ lastKnownStatus[ProbedKey] = "online" =>
            /\ ReportedAs("online")
            /\ deviceFailureCounts'[ProbedKey] = 1]_vars

\* a tracked device, online in its latest check, has just failed one probe
C7_Witness ==
    /\ config.statusFailureThreshold = 2
    /\ statusLoop.deviceKey = Host1
    /\ statusLoop.probeResult = "offline"
    /\ statusLoop.previousStatus = "online"
    /\ statusLoop.status = "online"
    /\ offlineRun[Host1] = [n |-> 1, stable |-> TRUE]
    /\ statusLoop.reports # <<>>
    /\ statusLoop.reports[Len(statusLoop.reports)] = [ip |-> Host1, status |-> "online"]

\* the positions of allDevices the status loop passes in this step without
\* stopping for a probe
PassedOver ==
    IF statusLoop.pc \notin {"fetch", "probe"} \/ statusLoop'.pc = "fetch" THEN {}
    ELSE LET from == IF statusLoop.pc = "fetch" THEN 0 ELSE statusLoop.idx
             to == IF statusLoop'.pc = "probe" THEN statusLoop'.idx
                   ELSE Len(statusLoop'.all) + 1
         IN {k \in 1..Len(statusLoop'.all) : from < k /\ k < to}

\* the IP address ends in .0 or .255
EndsIn0Or255(ip) == ip[Len(ip)] \in {0, 255}

\* C8: an IP ending in .0 or .255 is never probed and never a key of the
\* failure-count or last-known-status map, and each cycle sets the device
\* offline as it passes it
C8_BroadcastSkipped ==
    /\ [](/\ statusLoop.pc = "probe" => ~EndsIn0Or255(statusLoop.all[statusLoop.idx].ip)
          /\ \A ip \in AllHosts : EndsIn0Or255(ip) =>
                /\ deviceFailureCounts[ip] = NoCount
                /\ lastKnownStatus[ip] = None
                /\ offlineRun[ip] = NoRun)
    /\ [][\A k \in PassedOver :
            /\ EndsIn0Or255(statusLoop'.all[k].ip)
            /\ TableStatus(discoveredDevices', statusLoop'.all[k].ip) = "offline"]_vars

\* a cycle has passed the .255 and the .0 device and probed Host1
C8_Witness ==
    /\ statusLoop.pc \in {"sleep", "upload"}
    /\ Len(statusLoop.all) = 3
    /\ statusLoop.deviceKey = Host1
    /\ TableStatus(discoveredDevices, HostBcast) = "offline"
    /\ TableStatus(discoveredDevices, HostNet) = "offline"

\* this step ends a status-check cycle (pruneDeviceTracking has run)
CycleEnd ==
    /\ statusLoop.pc \in {"fetch", "probe"}
    /\ statusLoop'.pc \in {"sleep", "upload"}
    /\ Len(statusLoop'.all) > 0

TableIps(tab) == {tab[k].ip : k \in 1..Len(tab)}

\* C9: at the end of a cycle no IP outside the device table is a key of
\* either map, and the entries of the IPs in the table are the ones they
\* had before the pruning
C9_Pruning ==
    [][CycleEnd =>
        \A ip \in AllHosts :
            /\ ip \notin TableIps(discoveredDevices') =>
                    /\ deviceFailureCounts'[ip] = NoCount
                    /\ lastKnownStatus'[ip] = None
            /\ ip \in TableIps(discoveredDevices') =>
                    IF ProbeStep /\ ip = ProbedKey
                    THEN /\ lastKnownStatus'[ip] = statusLoop'.status
                         /\ deviceFailureCounts'[ip] # NoCount
                                \/ deviceFailureCounts[ip] = NoCount
                    ELSE /\ lastKnownStatus'[ip] = lastKnownStatus[ip]
                         /\ deviceFailureCounts'[ip] = deviceFailureCounts[ip]]_vars

\* a cycle over two tracked devices has ended and both kept their entries
C9_Witness ==
    /\ statusLoop.pc \in {"sleep", "upload"}
    /\ Len(statusLoop.all) = 2
    /\ deviceFailureCounts[Host1] = 1
    /\ lastKnownStatus[Host1] = "online"
    /\ deviceFailureCounts[Host2] = NoCount
    /\ lastKnownStatus[Host2] = "offline"

\* ---------------------------------------------------------------------
\* The device table over the life of the process: the heartbeat assigns
\* and removes the segment, scans find all, some or none of the hosts, and
\* the status loop runs its cycles
InitGrowth ==
    /\ InitAgent
    /\ network = {Host1, HostBcast}
    /\ config = DefaultConfig

HeartbeatGrowth == Heartbeat({<<>>, <<"segA">>}, {}, 0)

NextGrowth ==
    \/ HeartbeatGrowth
    \/ Tick
    \/ ScanLoopWake
    \/ ScanLoopDiscovered
    \/ ScanLoopDiscoverFailed
    \/ ScanLoopUploaded
    \/ StatusWake
    \/ StatusFetched
    \/ StatusFetchFailed
    \/ StatusProbed
    \/ StatusUploaded

SpecGrowth == InitGrowth /\ [][NextGrowth]_vars

\* the for loop of a status-check cycle has ended
CycleDone ==
    \/ statusLoop.pc = "upload"
    \/ statusLoop.pc = "sleep" /\ statusLoop.all # <<>>

\* the step keeps every entry of the device table, at its position
TableKept ==
    \A k \in 1..Len(discoveredDevices) :
        /\ k <= Len(discoveredDevices')
        /\ discoveredDevices'[k].ip = discoveredDevices[k].ip

\* the step takes the allDevices array of a cycle: it holds every entry of
\* the table
SnapshotWhole ==
    (statusLoop.all = <<>> /\ statusLoop'.all # <<>>) =>
        /\ Len(statusLoop'.all) = Len(discoveredDevices)
        /\ \A k \in 1..Len(discoveredDevices) :
                statusLoop'.all[k].ip = discoveredDevices[k].ip

\* C35 as stated: the table only grows, and a cycle has probed every entry
\* of the table
C35_EveryIpProbed ==
    CycleDone => \A k \in 1..Len(statusLoop.all) :
                    statusLoop.all[k].ip \in statusLoop.activeKeys

\* C35: no step removes an entry of the device table; a status-check cycle
\* whose fetch succeeded enumerates every entry of the table, and by the end
\* of its for loop it has probed every one of them except the addresses
\* ending in .0 or .255
C35_TableGrows ==
    /\ [][TableKept /\ SnapshotWhole]_vars
    /\ [](CycleDone =>
            \A k \in 1..Len(statusLoop.all) :
                (statusLoop.all[k].ip \in statusLoop.activeKeys)
                    <=> ~EndsIn0Or255(statusLoop.all[k].ip))

\* the segment was removed after its scan found both hosts, and a later
\* cycle has gone through both entries
C35_Witness ==
    /\ CycleDone
    /\ segmentStates = <<>>
    /\ Len(statusLoop.all) = 2
    /\ Len(discoveredDevices) = 2
    /\ statusLoop.activeKeys = {Host1}

\* the step is the catch of a failed fetch of the controller's devices
FetchFailedStep ==
    /\ statusLoop.pc = "fetch"
    /\ statusLoop'.caught

\* C36: a status-check cycle whose fetch of the controller's devices fails
\* issues no probe, leaves the device table, the failure counts and the
\* last known statuses as they were and sleeps for statusCheckInterval; the
\* next thing the loop does is the fetch of the next cycle
C36_FetchFailureSkipsCycle ==
    /\ [][FetchFailedStep =>
            /\ discoveredDevices' = discoveredDevices
            /\ deviceFailureCounts' = deviceFailureCounts
            /\ lastKnownStatus' = lastKnownStatus
            /\ statusLoop'.activeKeys = {}
            /\ statusLoop'.reports = <<>>
            /\ statusLoop'.wait = config.statusCheckInterval]_vars
    /\ [][(statusLoop.pc = "sleep" /\ statusLoop' # statusLoop) =>
            (statusLoop'.pc = "fetch" /\ statusLoop'.activeKeys = {})]_vars

\* the fetch failed in a cycle that follows one with a suppressed failure:
\* the count and the last status of the device are still there
C36_Witness ==
    /\ statusLoop.pc = "sleep"
    /\ statusLoop.caught
    /\ statusLoop.wait = 30000
    /\ Len(discoveredDevices) = 2
    /\ deviceFailureCounts[Host1] = 1
    /\ lastKnownStatus[Host1] = "online"

\* ---------------------------------------------------------------------
\* Configuration: update_config commands change the threshold while the
\* status loop monitors one device
ConfigCmds == 1

InitConfig ==
    /\ InitAgent
    /\ network = {Host1}
    /\ config = DefaultConfig

HeartbeatConfig == Heartbeat({<<"segA">>}, {"update_config"}, ConfigCmds)

NextConfig ==
    \/ HeartbeatConfig
    \/ Tick
    \/ ScanLoopWake
    \/ ScanLoopDiscovered
    \/ ScanLoopDiscoverFailed
    \/ ScanLoopUploaded
    \/ CmdAwaitResolved
    \/ CmdAwaitRejected
    \/ StatusWake
    \/ StatusFetched
    \/ StatusFetchFailed
    \/ StatusProbed
    \/ StatusUploaded

SpecConfig == InitConfig /\ [][NextConfig]_vars

\* C4: the failure count of every tracked device is between 0 and the
\* threshold currently configured
C4_CountWithinThreshold ==
    \A ip \in AllHosts :
        deviceFailureCounts[ip] # NoCount =>
            /\ 0 <= deviceFailureCounts[ip]
            /\ deviceFailureCounts[ip] <= config.statusFailureThreshold

\* ---------------------------------------------------------------------
\* Commands: the controller sends commands of every type, by heartbeat and
\* by the push channel, and any call to the controller may fail
InitCmd ==
    /\ InitAgent
    /\ network = {Host1}
    /\ \E e \in BOOLEAN, m \in BOOLEAN :
        config = [DefaultConfig EXCEPT !.enableAutoUpgrade = e, !.autoUpgradeOnMinor = m]

HeartbeatCmd == Heartbeat({<<"segA">>}, CmdTypes, MaxCmds)
RealtimeCmd == RealtimeCommand(CmdTypes, MaxCmds)

NextCmds ==
    \/ HeartbeatCmd
    \/ RealtimeCmd
    \/ CmdAwaitResolved
    \/ CmdDiscoverResolved
    \/ CmdAwaitRejected
    \/ ProcessExit

SpecCmd == InitCmd /\ [][NextCmds]_vars

\* the acknowledgeCommand calls made for command id
AckCalls(id) == SelectSeq(ackLog[id], LAMBDA a : a.call = "ack")

\* C10: every pending command gets exactly one acknowledgment call: in
\* particular acknowledgeCommand is never called a second time for a
\* command id, whatever call failed
C10_OneAckPerCommand ==
    \A id \in CmdIds : Len(AckCalls(id)) <= 1

\* ---------------------------------------------------------------------
\* Redelivery: the controller lists a command as pending until the agent
\* has acknowledged it, and both channels deliver it
DupCmds == 2

HeartbeatDup == Heartbeat({<<"segA">>}, ScanCmdTypes, DupCmds)
RealtimeDup == RealtimeCommand(ScanCmdTypes, DupCmds)
HeartbeatPendingDup == HeartbeatPending({<<"segA">>})

NextDup ==
    \/ HeartbeatDup
    \/ RealtimeDup
    \/ HeartbeatPendingDup
    \/ RealtimePending
    \/ CmdAwaitResolved
    \/ CmdDiscoverResolved
    \/ CmdAwaitRejected

SpecDup == InitScan /\ [][NextDup]_vars

\* C11: no command id is executed more than once, whichever channels
\* delivered it and however often
C11_ExecutedOnce ==
    \A id \in CmdIds : executed[id] <= 1

\* the last call made to the controller for command id
LastCall(log, id) == log[id][Len(log[id])]

\* the invocation q has just passed the acknowledgment of a restart or
\* upgrade command: it was awaiting that acknowledgment, a successful one,
\* and this step is the await resolving (no call is made in it)
AckCompletedFor(q) ==
    \E p \in cmdProcs :
        /\ p.pc = (IF q.pc = "restartWait" THEN "ackRestart" ELSE "ackUpgrade")
        /\ p.queue = q.queue
        /\ ackLog[Head(p.queue).id] # <<>>
        /\ LastCall(ackLog, Head(p.queue).id).call = "ack"
        /\ LastCall(ackLog, Head(p.queue).id).success
        /\ ackLog' = ackLog

\* C12: an invocation reaches the wait before process.exit(0) (restart) or
\* the call of performUpgrade (upgrade) only by the resolution of its
\* acknowledgment call, and the process exits only from one of these two
\* places
C12_AckBeforeTermination ==
    [][/\ \A q \in cmdProcs' \ cmdProcs :
            q.pc \in {"restartWait", "upgrade"} => AckCompletedFor(q)
       /\ (exited' /\ ~exited) =>
            \E p \in cmdProcs : p.pc \in {"restartWait", "upgrade"}]_vars

\* a restart has been acknowledged and its wait ended in process.exit(0)
\* while an acknowledged upgrade is inside performUpgrade
C12_Witness ==
    /\ exited
    /\ \E p, q \in cmdProcs :
        /\ p.pc = "restartWait" /\ q.pc = "upgrade"
        /\ LastCall(ackLog, Head(p.queue).id).info = "restarting"
        /\ LastCall(ackLog, Head(q.queue).id).info = "Upgrade starting..."

\* the agent's upgrade policies allow an upgrade from 1.0.0 to target:
\* auto-upgrade is enabled, the target has the same major version, and it is
\* a later patch of the same minor version, or a later minor version with
\* minor upgrades enabled
PolicyAllows(target) ==
    /\ config.enableAutoUpgrade
    /\ target[1] = 1
    /\ \/ target[2] = 0 /\ target[3] > 0
       \/ target[2] > 0 /\ config.autoUpgradeOnMinor

BlockReasons == {"Auto-upgrade disabled - manual upgrade required",
                 "Upgrade blocked by policy (major version change)"}

\* C13: performUpgrade is running only for a command whose target the
\* policies allow; an upgrade command with target and url that a policy
\* blocks is acknowledged, as soon as it is taken up, with success = true
\* and the block reason, and never reaches performUpgrade
C13_UpgradePolicy ==
    \A p \in cmdProcs :
        LET c == Head(p.queue)
        IN /\ p.pc \in {"ackUpgrade", "upgrade"} =>
                c.payload.target_version # NoVersion /\ PolicyAllows(c.payload.target_version)
           /\ (/\ c.type = "upgrade" /\ p.pc # "start"
               /\ c.payload.target_version # NoVersion /\ c.payload.download_url # None
               /\ ~PolicyAllows(c.payload.target_version)) =>
                /\ p.pc \in {"ack", "catchAck"}
                /\ ackLog[c.id][1].call = "ack" /\ ackLog[c.id][1].success
                /\ ackLog[c.id][1].info \in BlockReasons
                /\ ackLog[c.id][1].info = "Auto-upgrade disabled - manual upgrade required"
                        <=> ~config.enableAutoUpgrade

\* performUpgrade runs for a minor upgrade with both policies on, and a
\* major upgrade was acknowledged as blocked by policy
C13_Witness ==
    /\ \E p \in cmdProcs :
        p.pc = "upgrade" /\ Head(p.queue).payload.target_version = <<1, 1, 0>>
    /\ \E id \in CmdIds :
        /\ ackLog[id] # <<>>
        /\ ackLog[id][1].info = "Upgrade blocked by policy (major version change)"

\* ---------------------------------------------------------------------
\* Version policy: shouldAutoUpgrade applied to pairs of versions
MaxParts == 4           \* parts of a version string
MaxShortPart == 1       \* the largest part of a four-part version

\* the numbers a part of a version string stands for
VersionParts == {0, 1, 2, 5, 6}

Versions ==
    UNION {[1..n -> VersionParts] : n \in 1..3}
        \cup [1..MaxParts -> 0..MaxShortPart]

\* what an application of a function leaves alone
CalcFrame == UNCHANGED <<now, network, segmentStates, scanLoop, discoveredDevices,
                         deviceFailureCounts, lastKnownStatus, statusLoop, offlineRun,
                         config, cmdProcs, nextCmd, ackLog, uiProcs, uiCount, exited,
                         executed, heartbeat, discovery, remote, realtime, shutdown>>

InitVersion ==
    /\ InitState
    /\ network = {}
    /\ config = DefaultConfig
    /\ \E latest \in Versions, current \in Versions, autoUpgradeOnMinor \in BOOLEAN :
        calc = [fn |-> "args", latest |-> latest, current |-> current,
                autoUpgradeOnMinor |-> autoUpgradeOnMinor, result |-> FALSE]

\* shouldAutoUpgrade(latest, current, autoUpgradeOnMinor) returns
ShouldAutoUpgradeCalled ==
    /\ calc.fn = "args"
    /\ calc' = [calc EXCEPT
                    !.fn = "shouldAutoUpgrade",
                    !.result = shouldAutoUpgrade(calc.latest, calc.current,
                                                 calc.autoUpgradeOnMinor)]
    /\ CalcFrame

NextVersion == ShouldAutoUpgradeCalled

SpecVersion == InitVersion /\ [][NextVersion]_vars

\* the first part, counted from the left, in which two versions differ
\* (parts missing on the right count as 0); 0 if there is none
FirstDifference(a, b) ==
    LET D == {i \in 1..MaxParts : Part(a, i) # Part(b, i)}
    IN IF D = {} THEN 0 ELSE CHOOSE k \in D : \A m \in D : k <= m

\* version a is later than version b
Later(a, b) ==
    FirstDifference(a, b) # 0
        /\ Part(a, FirstDifference(a, b)) > Part(b, FirstDifference(a, b))

\* C14: shouldAutoUpgrade is false when latest has a higher major version
\* or is not later than current, is autoUpgradeOnMinor when the major is the
\* same and the minor higher, and is true when only the patch is higher;
\* (2.0.0, 1.5.0, true) and (1.6.0, 1.5.0, false) give false,
\* (1.5.1, 1.5.0, false) gives true
C14_ShouldAutoUpgrade ==
    calc.fn = "shouldAutoUpgrade" =>
        LET l == calc.latest
            c == calc.current
        IN /\ (Part(l, 1) > Part(c, 1) \/ ~Later(l, c)) => ~calc.result
           /\ (Part(l, 1) = Part(c, 1) /\ Part(l, 2) > Part(c, 2)) =>
                (calc.result <=> calc.autoUpgradeOnMinor)
           /\ (Part(l, 1) = Part(c, 1) /\ Part(l, 2) = Part(c, 2)
                    /\ Part(l, 3) > Part(c, 3)) => calc.result
           /\ (l = <<2, 0, 0>> /\ c = <<1, 5, 0>> /\ calc.autoUpgradeOnMinor)
                => ~calc.result
           /\ (l = <<1, 6, 0>> /\ c = <<1, 5, 0>> /\ ~calc.autoUpgradeOnMinor)
                => ~calc.result
           /\ (l = <<1, 5, 1>> /\ c = <<1, 5, 0>> /\ ~calc.autoUpgradeOnMinor)
                => calc.result

\* shouldAutoUpgrade('1.6.0', '1.5.0', false) has returned false
C14_Witness ==
    /\ calc.fn = "shouldAutoUpgrade"
    /\ calc.latest = <<1, 6, 0>> /\ calc.current = <<1, 5, 0>>
    /\ ~calc.autoUpgradeOnMinor /\ ~calc.result

\* ---------------------------------------------------------------------
\* update_config: the validated assignments applied to payloads of every
\* shape
ConfigFields == {"heartbeatInterval", "statusCheckInterval", "statusFailureThreshold",
                 "logLevel", "enableAutoScan", "autoScanInterval"}

\* values of a numeric payload field around its lower limit
NumericUpdates(limit) ==
    {Undefined, Str, Num(limit - 1), Num(limit), Num(limit + 50)}

\* command.payload of an update_config command
UpdatePayloads ==
    {[NoPayload EXCEPT !.heartbeatInterval = h, !.statusCheckInterval = s,
                       !.statusFailureThreshold = t, !.logLevel = l,
                       !.enableAutoScan = e, !.autoScanInterval = a] :
        h \in NumericUpdates(10), s \in NumericUpdates(5), t \in NumericUpdates(0),
        l \in {Undefined, Num(1), StrOf("debug"), StrOf("error"), StrOf("verbose")},
        e \in {Undefined, Str, Bool(TRUE), Bool(FALSE)},
        a \in NumericUpdates(30)}

InitUpdate ==
    /\ InitState
    /\ network = {}
    /\ \E e \in BOOLEAN : config = [DefaultConfig EXCEPT !.enableAutoUpgrade = e]
    /\ \E updates \in UpdatePayloads :
        calc = [fn |-> "args", updates |-> updates, before |-> config,
                applied |-> ApplyUpdates(config, NoPayload).applied]

\* the assignments of case 'update_config' are made
UpdateConfigApplied ==
    /\ calc.fn = "args"
    /\ config' = ApplyUpdates(config, calc.updates).cfg
    /\ calc' = [calc EXCEPT !.fn = "update_config",
                            !.applied = ApplyUpdates(config, calc.updates).applied]
    /\ UNCHANGED <<now, network, segmentStates, scanLoop, discoveredDevices,
                   deviceFailureCounts, lastKnownStatus, statusLoop, offlineRun,
                   cmdProcs, nextCmd, ackLog, uiProcs, uiCount, exited, executed,
                   heartbeat, discovery, remote, realtime, shutdown>>

NextUpdate == UpdateConfigApplied

SpecUpdate == InitUpdate /\ [][NextUpdate]_vars

\* the payload value v has the type and the range that field requires
ValidUpdate(field, v) ==
    CASE field = "heartbeatInterval" -> v.typeof = "number" /\ v.val >= 10
      [] field = "statusCheckInterval" -> v.typeof = "number" /\ v.val >= 5
      [] field = "statusFailureThreshold" -> v.typeof = "number" /\ v.val >= 0
      [] field = "logLevel" ->
            v.typeof = "string" /\ v.str \in {"debug", "info", "warn", "error"}
      [] field = "enableAutoScan" -> v.typeof = "boolean"
      [] field = "autoScanInterval" -> v.typeof = "number" /\ v.val >= 30

\* the configuration value a valid payload value v stands for: the two
\* intervals given in seconds are kept in milliseconds
ConfigValue(field, v) ==
    CASE field \in {"heartbeatInterval", "statusCheckInterval"} -> v.val * 1000
      [] field \in {"statusFailureThreshold", "autoScanInterval"} -> v.val
      [] field = "logLevel" -> v.str
      [] field = "enableAutoScan" -> v.bool

\* C15: update_config sets a field exactly if the payload value has the
\* right type and range, and then to that value; every other field of the
\* configuration keeps its value; 'applied' holds exactly the fields set,
\* with their payload values
C15_UpdateConfig ==
    calc.fn = "update_config" =>
        /\ \A f \in ConfigFields :
            IF ValidUpdate(f, calc.updates[f])
            THEN /\ config[f] = ConfigValue(f, calc.updates[f])
                 /\ calc.applied[f] = calc.updates[f]
            ELSE /\ config[f] = calc.before[f]
                 /\ calc.applied[f].typeof = "undefined"
        /\ \A f \in DOMAIN config \ ConfigFields : config[f] = calc.before[f]

\* an update with a valid heartbeatInterval and logLevel and an
\* autoScanInterval below its limit has been applied
C15_Witness ==
    /\ calc.fn = "update_config"
    /\ calc.updates.heartbeatInterval = Num(10) /\ config.heartbeatInterval = 10000
    /\ calc.updates.logLevel = StrOf("debug") /\ config.logLevel = "debug"
    /\ calc.updates.autoScanInterval = Num(29) /\ config.autoScanInterval = 300
    /\ calc.applied.heartbeatInterval = Num(10)
    /\ calc.applied.autoScanInterval = Undefined

\* ---------------------------------------------------------------------
\* The heartbeat loop: heartbeats succeed, delivering scan commands, or
\* fail, while the commands of earlier heartbeats execute
BeatCmds == 2

\* HEARTBEAT_INTERVAL, in ms
HeartbeatIntervals == {10000, 60000, 120000}

InitBeat ==
    /\ InitAgent
    /\ network = {Host1}
    /\ \E i \in HeartbeatIntervals : config = [DefaultConfig EXCEPT !.heartbeatInterval = i]

HeartbeatBeat == Heartbeat({<<"segA">>}, ScanCmdTypes, BeatCmds)

NextBeat ==
    \/ HeartbeatBeat
    \/ HeartbeatFailed
    \/ CmdAwaitResolved
    \/ CmdDiscoverResolved
    \/ CmdAwaitRejected

SpecBeat == InitBeat /\ [][NextBeat]_vars

\* the backoff delay after n consecutive failures, n >= 1: 2 s, doubled
\* with each further failure, at most 60 s
RECURSIVE BackoffDelay(_)
BackoffDelay(n) ==
    IF n <= 1 THEN 2000
    ELSE IF 2 * BackoffDelay(n - 1) > 60000 THEN 60000 ELSE 2 * BackoffDelay(n - 1)

\* the number of heartbeats that have failed in a row: retryDelay is
\* doubled by each failure and set to 2 s by a success
RECURSIVE ConsecutiveFailures(_)
ConsecutiveFailures(retryDelay) ==
    IF retryDelay <= 2000 THEN 0 ELSE 1 + ConsecutiveFailures(retryDelay \div 2)

\* C16: after a failed heartbeat the loop waits the backoff delay: 2 s
\* after the first failure, doubled with each consecutive failure, at most
\* 60 s (the delay as it is before or after the doubling for the failure
\* just seen)
C16_BackoffWait ==
    LET n == ConsecutiveFailures(heartbeat.retryDelay)
    IN n > 0 => heartbeat.wait \in {BackoffDelay(n), BackoffDelay(n + 1)}

\* C17: the heartbeat loop is never held by the commands it dispatched:
\* whenever a command is executing the loop is at the wait before its next
\* heartbeat, and after a successful heartbeat that wait is the normal one,
\* min(config.heartbeatInterval, 60 s)
C17_LoopNotBlocked ==
    cmdProcs # {} =>
        /\ heartbeat.pc = "wait"
        /\ heartbeat.retryDelay = 2000 =>
                heartbeat.wait = (IF config.heartbeatInterval < 60000
                                  THEN config.heartbeatInterval ELSE 60000)

\* a scan_now delivered by a heartbeat is still scanning segA when a later
\* heartbeat has delivered the next command, which is executing as well
C17_Witness ==
    /\ heartbeat.pc = "wait"
    /\ \E p, q \in cmdProcs :
        /\ p.pc = "discover" /\ Head(p.queue).type = "scan_now" /\ Head(p.queue).id = 1
        /\ Head(q.queue).id = 2

\* ---------------------------------------------------------------------
\* this step is the status loop moving on: it runs from one await of the
\* loop to the next (a scan merge only marks entries of allDevices)
StatusLoopStep ==
    statusLoop'.pc # statusLoop.pc \/ statusLoop'.idx # statusLoop.idx

\* C18: the status the status loop settles on for the probed device is in
\* the device table after the step, also when a scan replaced the table's
\* record of that IP while the probe was in progress; and a step that is
\* not a step of the status loop keeps every IP of the table and its status
C18_StatusNotLost ==
    [][/\ ProbeStep =>
            /\ DevIndex(discoveredDevices', ProbedKey) # 0
            /\ TableStatus(discoveredDevices', ProbedKey) = statusLoop'.status
            /\ TableStatus(discoveredDevices', ProbedKey) = lastKnownStatus'[ProbedKey]
       /\ ~StatusLoopStep =>
            \A i \in 1..Len(discoveredDevices) :
                /\ DevIndex(discoveredDevices', discoveredDevices[i].ip) # 0
                /\ TableStatus(discoveredDevices', discoveredDevices[i].ip)
                        = discoveredDevices[i].status]_vars

\* a device seen for the first time was probed while a scan replaced its
\* record; the table holds the status the probe gave, not 'unknown'
C18_Witness ==
    /\ statusLoop.pc \in {"probe", "upload"}
    /\ \E k \in 1..Len(statusLoop.all) :
        /\ statusLoop.all[k].detached
        /\ statusLoop.all[k].ip = statusLoop.deviceKey
        /\ statusLoop.pc = "probe" => k < statusLoop.idx
        /\ statusLoop.previousStatus = None
        /\ statusLoop.status = "offline"
        /\ TableStatus(discoveredDevices, statusLoop.all[k].ip) = "offline"

\* ---------------------------------------------------------------------
\* mergeDiscoveredDevices (scanner/discover.js): a DiscoveredDevice with
\* its scalar fields ("" is an empty or missing value) and its arrays
Device(ip, mac, hostname, ports, method) ==
    [ip_address |-> ip, mac_address |-> mac, hostname |-> hostname, manufacturer |-> "",
     upnp_info |-> "", netbios_name |-> "", snmp_info |-> "", os_hints |-> <<>>,
     open_ports |-> ports, services |-> <<>>, discovery_method |-> method]

\* [...new Set(arr)]: the first occurrence of every element, in order
RECURSIVE Dedup(_)
Dedup(arr) ==
    IF arr = <<>> THEN <<>>
    ELSE LET init == Dedup(SubSeq(arr, 1, Len(arr) - 1))
             last == arr[Len(arr)]
         IN IF last \in Range(init) THEN init ELSE Append(init, last)

\* a later non-empty value replaces the value the record has
FillScalarOverwrite(existingValue, deviceValue) ==
    IF deviceValue # "" THEN deviceValue ELSE existingValue

\* if (device.f && !existing.f) existing.f = device.f
FillScalar(existingValue, deviceValue) ==
    IF deviceValue # "" /\ existingValue = "" THEN deviceValue ELSE existingValue

\* if (device.f?.length) existing.f = [...new Set([...(existing.f || []), ...device.f])]
MergeArray(existingValue, deviceValue) ==
    IF Len(deviceValue) > 0 THEN Dedup(existingValue \o deviceValue) ELSE existingValue

\* the else branch: merge the fields of device into existing
MergeFields(existing, device) ==
    [existing EXCEPT
        !.mac_address = FillScalar(@, device.mac_address),
        !.hostname = FillScalar(@, device.hostname),
        !.manufacturer = FillScalar(@, device.manufacturer),
        !.upnp_info = FillScalar(@, device.upnp_info),
        !.netbios_name = FillScalar(@, device.netbios_name),
        !.snmp_info = FillScalar(@, device.snmp_info),
        !.os_hints = MergeArray(@, device.os_hints),
        !.open_ports = MergeArray(@, device.open_ports),
        !.services = MergeArray(@, device.services)]

\* the position of ip among the values of the Map merged, 0 if it has none
MergedIndex(merged, ip) ==
    IF \E i \in 1..Len(merged) : merged[i].ip_address = ip
    THEN CHOOSE i \in 1..Len(merged) : merged[i].ip_address = ip ELSE 0

\* for (const device of devices): the Map, as the sequence of its values in
\* insertion order, after the devices were taken in
RECURSIVE MergeInto(_, _)
MergeInto(merged, devices) ==
    IF devices = <<>> THEN merged
    ELSE LET device == Head(devices)
             i == MergedIndex(merged, device.ip_address)
         IN MergeInto(IF i = 0 THEN Append(merged, device)
                      ELSE [merged EXCEPT ![i] = MergeFields(@, device)],
                      Tail(devices))

\* for (const devices of deviceArrays) for (const device of devices): the
\* devices in the order the loops visit them
RECURSIVE VisitOrder(_)
VisitOrder(deviceArrays) ==
    IF deviceArrays = <<>> THEN <<>>
    ELSE Head(deviceArrays) \o VisitOrder(Tail(deviceArrays))

\* the device arrays appended without looking at the IP
concatDeviceArrays(deviceArrays) == VisitOrder(deviceArrays)

\* mergeDiscoveredDevices(...deviceArrays): Array.from(merged.values())
mergeDiscoveredDevices(deviceArrays) == MergeInto(<<>>, VisitOrder(deviceArrays))

\* the devices the sources report
MergeHosts == {Host1, Host2}
SourceDevices(method) ==
    {[Device(ip, mac, hostname, ports, method) EXCEPT !.manufacturer = man, !.os_hints = os] :
        ip \in MergeHosts, mac \in {"", "AA:AA", "BB:BB"}, hostname \in {"", "host.local"},
        man \in {"", "Apple, Inc."}, ports \in {<<>>, <<80>>, <<80, 22>>},
        os \in {<<>>, <<"linux">>}}

\* the records of an SSDP source for the first host
SsdpDevices ==
    {[Device(Host1, mac, "", <<>>, "ssdp") EXCEPT !.services = sv] :
        mac \in {"", "CC:CC"}, sv \in {<<>>, <<"upnp">>}}

InitMerge ==
    /\ InitState
    /\ network = MergeHosts
    /\ config = DefaultConfig
    /\ \E A \in SourceDevices("arp"), B \in SourceDevices("mdns"), C \in SsdpDevices :
        calc = [fn |-> "args", A |-> A, B |-> B, C |-> C, ab |-> <<>>, ba |-> <<>>,
                once |-> <<>>, twice |-> <<>>, abc |-> <<>>]

\* mergeDiscoveredDevices returns for the arrays [A] and [B] in both orders,
\* for the array [A, B] once and with itself, and for the three arrays
\* [A], [B], [C] of the ARP, mDNS and SSDP sources
MergeCalled ==
    /\ calc.fn = "args"
    /\ calc' = [calc EXCEPT
                    !.fn = "mergeDiscoveredDevices",
                    !.ab = mergeDiscoveredDevices(<<(<<calc.A>>), (<<calc.B>>)>>),
                    !.ba = mergeDiscoveredDevices(<<(<<calc.B>>), (<<calc.A>>)>>),
                    !.once = mergeDiscoveredDevices(<<(<<calc.A, calc.B>>)>>),
                    !.twice = mergeDiscoveredDevices(<<(<<calc.A, calc.B>>),
                                                       (<<calc.A, calc.B>>)>>),
                    !.abc = mergeDiscoveredDevices(<<(<<calc.A>>), (<<calc.B>>),
                                                     (<<calc.C>>)>>)]
    /\ CalcFrame

\* devices.map(d => d.ip_address)
RECURSIVE IpsOf(_)
IpsOf(devices) ==
    IF devices = <<>> THEN <<>> ELSE <<Head(devices).ip_address>> \o IpsOf(Tail(devices))

\* scanLoop: the devices a discovery returned are merged into the device
\* table (the merged list, or the list of a remote segment as it comes)
TableMerged ==
    /\ calc.fn = "mergeDiscoveredDevices"
    /\ \E devices \in {calc.ab, calc.ba, <<calc.A, calc.B>>, <<calc.B, calc.B>>} :
        discoveredDevices' = updateDevices(MergeDevices(discoveredDevices, IpsOf(devices)))
    /\ UNCHANGED <<now, network, segmentStates, scanLoop, deviceFailureCounts,
                   lastKnownStatus, statusLoop, offlineRun, config, cmdProcs, nextCmd,
                   ackLog, uiProcs, uiCount, exited, executed, heartbeat, calc,
                   discovery, remote, realtime, shutdown>>

NextMerge == MergeCalled \/ TableMerged

SpecMerge == InitMerge /\ [][NextMerge]_vars

\* no two entries of the list of devices have the same IP address
UniqueIps(devices) ==
    \A i, j \in 1..Len(devices) : devices[i].ip_address = devices[j].ip_address => i = j

\* C19: the lists mergeDiscoveredDevices returns and the shared device
\* table never hold two entries for one IP address, however many sources,
\* or entries of one source, reported it
C19_OneEntryPerIp ==
    /\ calc.fn = "mergeDiscoveredDevices" =>
            /\ UniqueIps(calc.ab) /\ UniqueIps(calc.ba)
            /\ UniqueIps(calc.once) /\ UniqueIps(calc.twice)
    /\ \A i, j \in 1..Len(discoveredDevices) :
            discoveredDevices[i].ip = discoveredDevices[j].ip => i = j

\* two sources reported the same IP, one source listed it twice, and the
\* merged lists and the device table hold it once
C19_Witness ==
    /\ calc.fn = "mergeDiscoveredDevices"
    /\ calc.A.ip_address = calc.B.ip_address
    /\ calc.A.discovery_method = "arp" /\ calc.B.discovery_method = "mdns"
    /\ Len(calc.ab) = 1 /\ Len(calc.twice) = 1
    /\ Len(discoveredDevices) = 1

\* the merged fields of two device records are identical; the merged
\* arrays are compared as sets of values
SameMergedFields(d, e) ==
    /\ d.ip_address = e.ip_address
    /\ d.mac_address = e.mac_address /\ d.hostname = e.hostname
    /\ d.manufacturer = e.manufacturer /\ d.upnp_info = e.upnp_info
    /\ d.netbios_name = e.netbios_name /\ d.snmp_info = e.snmp_info
    /\ Range(d.os_hints) = Range(e.os_hints)
    /\ Range(d.open_ports) = Range(e.open_ports)
    /\ Range(d.services) = Range(e.services)

\* two merged lists hold the same IPs with identical merged fields
SameMergedLists(l, m) ==
    /\ Len(l) = Len(m)
    /\ \A i \in 1..Len(l) : \E j \in 1..Len(m) : SameMergedFields(l[i], m[j])

\* C20: for two records A and B of one IP, merging [A], [B] and merging
\* [B], [A] give identical merged fields, and merging a list with itself
\* gives what merging it once gives
C20_CommutativeIdempotent ==
    calc.fn = "mergeDiscoveredDevices" =>
        /\ calc.A.ip_address = calc.B.ip_address => SameMergedLists(calc.ab, calc.ba)
        /\ SameMergedLists(calc.once, calc.twice)

\* the records the three sources gave for ip, in source order ARP, mDNS, SSDP
RecordsFor(ip) ==
    SelectSeq(<<calc.A, calc.B, calc.C>>, LAMBDA d : d.ip_address = ip)

\* the first non-empty value of a sequence of scalar values, "" if none
FirstNonEmpty(values) ==
    IF \A k \in 1..Len(values) : values[k] = "" THEN ""
    ELSE values[CHOOSE k \in 1..Len(values) :
                    values[k] # "" /\ \A m \in 1..(k - 1) : values[m] = ""]

\* C21: in the merge of the ARP, mDNS and SSDP records, every merged record
\* has for each scalar field the value of the first record of its IP, in
\* source order, that has one, and for each collection field the union of
\* that field over the records of its IP
C21_MergedFields ==
    calc.fn = "mergeDiscoveredDevices" =>
        \A i \in 1..Len(calc.abc) :
            LET m == calc.abc[i]
                rs == RecordsFor(m.ip_address)
            IN /\ m.mac_address = FirstNonEmpty([k \in 1..Len(rs) |-> rs[k].mac_address])
               /\ m.hostname = FirstNonEmpty([k \in 1..Len(rs) |-> rs[k].hostname])
               /\ m.manufacturer = FirstNonEmpty([k \in 1..Len(rs) |-> rs[k].manufacturer])
               /\ Range(m.os_hints) = UNION {Range(rs[k].os_hints) : k \in 1..Len(rs)}
               /\ Range(m.open_ports) = UNION {Range(rs[k].open_ports) : k \in 1..Len(rs)}
               /\ Range(m.services) = UNION {Range(rs[k].services) : k \in 1..Len(rs)}

\* ARP gave no MAC address, mDNS and SSDP gave different ones: the merged
\* record has the one of mDNS, the hostname of ARP, and the ports and
\* services of all three
C21_Witness ==
    /\ calc.fn = "mergeDiscoveredDevices"
    /\ Len(calc.abc) = 1
    /\ calc.A.mac_address = "" /\ calc.B.mac_address = "BB:BB" /\ calc.C.mac_address = "CC:CC"
    /\ calc.abc[1].mac_address = "BB:BB"
    /\ calc.A.hostname = "host.local" /\ calc.B.hostname = ""
    /\ calc.abc[1].hostname = "host.local"
    /\ calc.A.open_ports = <<80>> /\ calc.B.open_ports = <<80, 22>>
    /\ calc.abc[1].open_ports = <<80, 22>>
    /\ calc.abc[1].services = <<"upnp">>

\* ---------------------------------------------------------------------
\* discoverDevices and enrichDevices (scanner/discover.js)
BATCH_SIZE == 5

\* the numbers of devices a discovery finds
DeviceCounts == {0, 2, 6}

\* The enrichment of one device: the await it is at (1 portScan,
\* 2 grabBanners, 3 detectOs, 4 querySnmp; 0 not started, 5 past the last),
\* and whether one of its calls threw
NotEnriched == [stage |-> 0, failed |-> FALSE]
Finished(d) == d.failed \/ d.stage = 5
Enriching(d) == d.stage \in 1..4 /\ ~d.failed

\* devices.slice(i, i + BATCH_SIZE), as positions of the array
Batch(devices, i) == {k \in 1..Len(devices) : i < k /\ k <= i + BATCH_SIZE}

\* every callback of the array started at once
StartAll(D, i) ==
    [D EXCEPT !.i = i,
              !.devices = [k \in 1..Len(D.devices) |->
                              IF k > i THEN [D.devices[k] EXCEPT !.stage = 1]
                              ELSE D.devices[k]]]

\* batch.map(async (device) => ...): every callback of the batch at i runs to
\* its first await, portScan(ip, logger)
StartBatch(D, i) ==
    [D EXCEPT !.i = i,
              !.devices = [k \in 1..Len(D.devices) |->
                              IF k \in Batch(D.devices, i)
                              THEN [D.devices[k] EXCEPT !.stage = 1]
                              ELSE D.devices[k]]]

\* a callback of the batch ended: await Promise.all(...) resolves once all
\* of them have; then the next batch, or return devices
BatchAdvance(D) ==
    IF \E k \in Batch(D.devices, D.i) : ~Finished(D.devices[k]) THEN D
    ELSE IF D.i + BATCH_SIZE < Len(D.devices) THEN StartBatch(D, D.i + BATCH_SIZE)
    ELSE [D EXCEPT !.pc = "returned"]

\* enrichDevices(devices, logger): to its first await
EnrichDevices(D, n) ==
    LET D1 == [D EXCEPT !.pending = {}, !.devices = [k \in 1..n |-> NotEnriched]]
    IN IF n = 0 THEN [D1 EXCEPT !.pc = "returned"]
       ELSE StartBatch([D1 EXCEPT !.pc = "enrich"], 0)

\* a call inside the try block of a callback throws, without the catch
EnrichThrewUncaught(D, k) == [D EXCEPT !.pc = "rejected"]

\* a call inside the try block of the callback of device k throws:
\* catch (error) { logger.debug(...) }
EnrichThrew(D, k) == BatchAdvance([D EXCEPT !.devices[k].failed = TRUE])

\* the await of the callback of device k resolves; a port scan without open
\* ports goes on with detectOs
EnrichResolved(D, k, openPorts) ==
    LET stage == D.devices[k].stage
        next == IF stage = 1 /\ ~openPorts THEN 3 ELSE stage + 1
    IN BatchAdvance([D EXCEPT !.devices[k].stage = next])

\* what a step of the discovery leaves alone
DiscoveryFrame == UNCHANGED <<now, network, segmentStates, scanLoop, discoveredDevices,
                              deviceFailureCounts, lastKnownStatus, statusLoop,
                              offlineRun, config, cmdProcs, nextCmd, ackLog, uiProcs,
                              uiCount, exited, executed, heartbeat, calc, remote,
                              realtime, shutdown>>

\* discoverDevices(cidr, logger) is called: isLocalNetwork(cidr)
DiscoverCalled ==
    /\ discovery.pc = "idle"
    /\ \E isLocal \in BOOLEAN :
        discovery' = [discovery EXCEPT !.pc = IF isLocal THEN "arpCache" ELSE "pingSweep"]
    /\ DiscoveryFrame

\* an await of discoverDevices resolves: populateArpCache, the 2 s delay,
\* one of the three scans of Promise.all (the last one is followed by the
\* CIDR filter, the merge and enrichDevices), or pingSweep
DiscoverResolved ==
    /\ \/ /\ discovery.pc = "arpCache"
          /\ discovery' = [discovery EXCEPT !.pc = "delay"]
       \/ /\ discovery.pc = "delay"
          /\ discovery' = [discovery EXCEPT !.pc = "scan",
                                            !.pending = {"arpScan", "mdnsScan", "ssdpScan"}]
       \/ /\ discovery.pc = "scan"
          /\ \E src \in discovery.pending :
                IF discovery.pending = {src}
                THEN \E n \in DeviceCounts : discovery' = EnrichDevices(discovery, n)
                ELSE discovery' = [discovery EXCEPT !.pending = @ \ {src}]
       \/ /\ discovery.pc = "pingSweep"
          /\ \E n \in DeviceCounts : discovery' = EnrichDevices(discovery, n)
    /\ DiscoveryFrame

\* populateArpCache, one of the three scans or pingSweep rejects:
\* discoverDevices rejects
DiscoverRejected ==
    /\ discovery.pc \in {"arpCache", "scan", "pingSweep"}
    /\ discovery' = [discovery EXCEPT !.pc = "rejected"]
    /\ DiscoveryFrame

\* an await in the callback of a device resolves
EnrichStageResolved ==
    /\ discovery.pc = "enrich"
    /\ \E k \in 1..Len(discovery.devices), openPorts \in BOOLEAN :
        /\ Enriching(discovery.devices[k])
        /\ discovery' = EnrichResolved(discovery, k, openPorts)
    /\ DiscoveryFrame

\* a call in the callback of a device throws
EnrichStageThrew ==
    /\ discovery.pc = "enrich"
    /\ \E k \in 1..Len(discovery.devices) :
        /\ Enriching(discovery.devices[k])
        /\ discovery' = EnrichThrew(discovery, k)
    /\ DiscoveryFrame

InitEnrich ==
    /\ InitAgent
    /\ network = {Host1}
    /\ config = DefaultConfig

NextEnrich ==
    \/ DiscoverCalled
    \/ DiscoverResolved
    \/ DiscoverRejected
    \/ EnrichStageResolved
    \/ EnrichStageThrew

SpecEnrich == InitEnrich /\ [][NextEnrich]_vars

\* C22: a failure in the enrichment of a device does not fail the scan and
\* does not stop the enrichment of other devices: discoverDevices rejects
\* only before any enrichment has started, and when it returns every
\* device is in the result, enriched through its last step unless one of
\* its own calls threw
C22_EnrichmentFailureIsolated ==
    /\ discovery.pc = "rejected" => discovery.devices = <<>>
    /\ discovery.pc = "returned" =>
            \A k \in 1..Len(discovery.devices) :
                discovery.devices[k].failed \/ discovery.devices[k].stage = 5

\* six devices were returned: the port scan of the first one threw, the
\* SNMP query of the sixth threw, and the others were enriched in full
C22_Witness ==
    /\ discovery.pc = "returned"
    /\ Len(discovery.devices) = 6
    /\ discovery.devices[1] = [stage |-> 1, failed |-> TRUE]
    /\ discovery.devices[6] = [stage |-> 4, failed |-> TRUE]
    /\ \A k \in 2..5 : discovery.devices[k] = [stage |-> 5, failed |-> FALSE]

\* the number of the batch the device at position k belongs to
BatchOf(k) == (k - 1) \div 5

\* C30: a device is enriched only once the scans of the discovery have all
\* resolved and their results are merged; a device of a later batch is
\* started only when every device of the batches before it has finished;
\* at most 5 devices are being enriched at a time
C30_EnrichmentOrder ==
    /\ \A k \in 1..Len(discovery.devices) :
            discovery.devices[k].stage >= 1 =>
                /\ discovery.pc \in {"enrich", "returned"}
                /\ discovery.pending = {}
                /\ \A j \in 1..Len(discovery.devices) :
                        BatchOf(j) < BatchOf(k) =>
                            discovery.devices[j].failed \/ discovery.devices[j].stage = 5
    /\ Cardinality({k \in 1..Len(discovery.devices) :
                        discovery.devices[k].stage \in 1..4
                            /\ ~discovery.devices[k].failed}) <= 5

\* the sixth device is being enriched, after the five of the first batch
\* have finished, one of them by a failure
C30_Witness ==
    /\ discovery.pc = "enrich"
    /\ Len(discovery.devices) = 6
    /\ discovery.devices[6].stage = 3 /\ ~discovery.devices[6].failed
    /\ discovery.devices[2].failed
    /\ \A k \in {1, 3, 4, 5} : discovery.devices[k] = [stage |-> 5, failed |-> FALSE]

\* ------------------------------------------------------------------
\* parseCidr / expandCidr (utils/ip-utils.ts). An address string
\* "a.b.c.d" is the tuple <<a, b, c, d>> of its decimal parts; numbers that
\* the bitwise operators of the code produce are signed 32-bit integers.

MinInt32 == 0 - 2147483647 - 1

MaxInt32 == 2147483647

\* ~a
BitNot(a) == IF a = MaxInt32 THEN MinInt32 ELSE 0 - (a + 1)

\* a & b on signed 32-bit integers
RECURSIVE BitAnd(_, _)
BitAnd(a, b) ==
    IF a = 0 \/ b = 0 THEN 0
    ELSE IF a = 0 - 1 THEN b
    ELSE IF b = 0 - 1 THEN a
    ELSE 2 * BitAnd(a \div 2, b \div 2) + (a % 2) * (b % 2)

\* a | b
BitOr(a, b) == BitNot(BitAnd(BitNot(a), BitNot(b)))

\* part << n for a part in 0..255 and n in {8, 16, 24}: the product wrapped
\* to a signed 32-bit integer
ShiftLeft(part, n) ==
    LET m == 2 ^ (32 - n)
        low == part % m
    IN (IF 2 * low >= m THEN low - m ELSE low) * (2 ^ n)

\* 1 << n: the shift count is taken modulo 32
ShiftLeftOne(n) == IF n % 32 = 31 THEN MinInt32 ELSE 2 ^ (n % 32)

\* ~((1 << (32 - prefix)) - 1): the difference is converted to a signed
\* 32-bit integer by ~
PrefixMask(prefix) ==
    LET bit == ShiftLeftOne(32 - prefix)
    IN BitNot(IF bit = MinInt32 THEN MaxInt32 ELSE bit - 1)

\* (parts[0] << 24) | (parts[1] << 16) | (parts[2] << 8) | parts[3]
IpNumber(parts) ==
    BitOr(BitOr(BitOr(ShiftLeft(parts[1], 24), ShiftLeft(parts[2], 16)),
                ShiftLeft(parts[3], 8)), parts[4])

\* numToIp(i >>> 0)
numToIp(i) ==
    <<(i \div 16777216) % 256, (i \div 65536) % 256, (i \div 256) % 256, i % 256>>

\* parseCidr(ip + "/" + prefix): what it throws, or the array it returns
parseCidr(ip, prefix) ==
    IF prefix < 0 \/ prefix > 32
    THEN [threw |-> "Invalid CIDR prefix", ips |-> <<>>]
    ELSE IF Len(ip) # 4 \/ \E j \in 1..Len(ip) : ip[j] < 0 \/ ip[j] > 255
    THEN [threw |-> "Invalid IP address", ips |-> <<>>]
    ELSE
        LET ipNum == IpNumber(ip)
            mask == PrefixMask(prefix)
            networkAddr == BitAnd(ipNum, mask)
            broadcastAddr == BitOr(networkAddr, BitNot(mask))
            start == IF prefix >= 31 THEN networkAddr ELSE networkAddr + 1
            end == IF prefix >= 31 THEN broadcastAddr ELSE broadcastAddr - 1
        IN [threw |-> "",
            ips |-> [k \in 1..(end - start + 1) |-> numToIp(start + k - 1)]]

\* expandCidr(cidr)
expandCidr(ip, prefix) == parseCidr(ip, prefix)

\* the shortest prefix, other than 0, whose block is expanded
MinPrefix == 22

CidrPrefixes == {0} \cup (MinPrefix..33)

CidrAddresses == {10, 127, 128, 192, 255} \X {0, 168} \X {1, 255} \X {0, 77, 255}

InitCidr ==
    /\ InitState
    /\ network = {}
    /\ config = DefaultConfig
    /\ \E ip \in CidrAddresses, prefix \in CidrPrefixes :
        calc = [fn |-> "args", ip |-> ip, prefix |-> prefix,
                result |-> [threw |-> "", ips |-> <<>>]]

\* expandCidr(cidr) returns or throws
ExpandCidrCalled ==
    /\ calc.fn = "args"
    /\ calc' = [calc EXCEPT !.fn = "expandCidr",
                            !.result = expandCidr(calc.ip, calc.prefix)]
    /\ CalcFrame

NextCidr == ExpandCidrCalled

SpecCidr == InitCidr /\ [][NextCidr]_vars

\* the number of leading bits of part j that a prefix fixes
FixedBits(prefix, j) ==
    IF prefix - 8 * (j - 1) < 0 THEN 0 ELSE Min(8, prefix - 8 * (j - 1))

\* the first address of the block of ip/prefix
NetworkAddress(ip, prefix) ==
    [j \in 1..4 |-> ip[j] - (ip[j] % (2 ^ (8 - FixedBits(prefix, j))))]

\* the last address of the block of ip/prefix
BroadcastAddress(ip, prefix) ==
    [j \in 1..4 |-> NetworkAddress(ip, prefix)[j] + (2 ^ (8 - FixedBits(prefix, j))) - 1]

\* the address after a, for a below 255.255.255.255
NextAddress(a) ==
    IF a[4] < 255 THEN <<a[1], a[2], a[3], a[4] + 1>>
    ELSE IF a[3] < 255 THEN <<a[1], a[2], a[3] + 1, 0>>
    ELSE IF a[2] < 255 THEN <<a[1], a[2] + 1, 0, 0>>
    ELSE <<a[1] + 1, 0, 0, 0>>

\* ips lists, in ascending order and without a gap, the addresses between
\* the network address and the broadcast address of ip/prefix
UsableAddresses(ips, ip, prefix) ==
    /\ Len(ips) >= 1
    /\ ips[1] = NextAddress(NetworkAddress(ip, prefix))
    /\ \A k \in 1..(Len(ips) - 1) : ips[k + 1] = NextAddress(ips[k])
    /\ NextAddress(ips[Len(ips)]) = BroadcastAddress(ip, prefix)

\* C23: for every prefix of at most 30, expandCidr returns exactly the
\* addresses of the block except its network address and its broadcast
\* address, in ascending order
C23_UsableAddresses ==
    (calc.fn = "expandCidr" /\ calc.prefix <= 30) =>
        /\ calc.result.threw = ""
        /\ UsableAddresses(calc.result.ips, calc.ip, calc.prefix)

\* ------------------------------------------------------------------
\* multiProbe(ip) (index.js): ping first, then the TCP ports in parallel

PROBE_PORTS ==
    <<[port |-> 80, name |-> "HTTP"], [port |-> 443, name |-> "HTTPS"],
      [port |-> 22, name |-> "SSH"], [port |-> 3389, name |-> "RDP"],
      [port |-> 445, name |-> "SMB"], [port |-> 53, name |-> "DNS"]>>

NoProbeResult == [status |-> "none", method |-> "none"]

\* results.find(r => r !== null) taking the last result that is not null
LastSuccessResult(checks) ==
    LET S == {k \in 1..Len(checks) : checks[k] = "online"}
    IN IF S = {} THEN NoProbeResult
       ELSE [status |-> "online",
             method |-> PROBE_PORTS[CHOOSE k \in S : \A m \in S : m <= k].name]

\* results.find(r => r !== null): the callback of a port returns null unless
\* checkTcpPort resolved with status online
SuccessResult(checks) ==
    LET S == {k \in 1..Len(checks) : checks[k] = "online"}
    IN IF S = {} THEN NoProbeResult
       ELSE [status |-> "online",
             method |-> PROBE_PORTS[CHOOSE k \in S : \A m \in S : k <= m].name]

InitProbe ==
    /\ InitState
    /\ network = {Host1}
    /\ config = DefaultConfig
    /\ calc = [fn |-> "args", ip |-> Host1, pc |-> "idle", ping |-> "none",
               checks |-> [k \in 1..Len(PROBE_PORTS) |-> "idle"],
               result |-> NoProbeResult]

\* multiProbe(ip) is called and awaits pingHost
MultiProbeCalled ==
    /\ calc.fn = "args"
    /\ calc' = [calc EXCEPT !.fn = "multiProbe", !.pc = "ping"]
    /\ CalcFrame

\* pingHost resolves (it never rejects): online returns at once, otherwise
\* every callback of PROBE_PORTS.map runs up to its await of checkTcpPort
PingResolved ==
    /\ calc.fn = "multiProbe" /\ calc.pc = "ping"
    /\ \E status \in {"online", "offline"} :
        calc' = IF status = "online"
                THEN [calc EXCEPT !.pc = "returned", !.ping = status,
                                  !.result = [status |-> "online", method |-> "ping"]]
                ELSE [calc EXCEPT !.pc = "ports", !.ping = status,
                                  !.checks = [k \in 1..Len(PROBE_PORTS) |-> "pending"]]
    /\ CalcFrame

\* checkTcpPort of one port resolves online or offline, or rejects (caught)
PortCheckResolved ==
    /\ calc.fn = "multiProbe" /\ calc.pc = "ports"
    /\ \E k \in 1..Len(PROBE_PORTS), outcome \in {"online", "offline", "threw"} :
        /\ calc.checks[k] = "pending"
        /\ calc' = [calc EXCEPT !.checks[k] = outcome]
    /\ CalcFrame

\* Promise.all(portChecks) resolves and multiProbe returns
MultiProbeReturned ==
    /\ calc.fn = "multiProbe" /\ calc.pc = "ports"
    /\ \A k \in 1..Len(PROBE_PORTS) : calc.checks[k] # "pending"
    /\ calc' = [calc EXCEPT
                    !.pc = "returned",
                    !.result = IF SuccessResult(calc.checks) # NoProbeResult
                               THEN SuccessResult(calc.checks)
                               ELSE [status |-> "offline", method |-> "none"]]
    /\ CalcFrame

NextProbe ==
    \/ MultiProbeCalled
    \/ PingResolved
    \/ PortCheckResolved
    \/ MultiProbeReturned

SpecProbe == InitProbe /\ [][NextProbe]_vars

\* the fallback ports, in the order of the spec, that connected
ConnectedPorts == {k \in 1..6 : calc.checks[k] = "online"}

\* the method naming port k of 80, 443, 22, 3389, 445, 53
MethodOfPort(k) == <<"HTTP", "HTTPS", "SSH", "RDP", "SMB", "DNS">>[k]

\* C24: ping success gives online by ping and no TCP probe; after a ping
\* failure the result is online by the first of the ports 80, 443, 22, 3389,
\* 445, 53 that connected; it is offline exactly when ping and all six
\* ports failed
C24_ProbeCascade ==
    calc.fn = "multiProbe" =>
        /\ (\E k \in 1..6 : calc.checks[k] # "idle") => calc.ping = "offline"
        /\ calc.pc = "returned" =>
            /\ calc.ping = "online" =>
                    calc.result = [status |-> "online", method |-> "ping"]
            /\ (calc.ping = "offline" /\ ConnectedPorts # {}) =>
                    /\ calc.result.status = "online"
                    /\ \E k \in ConnectedPorts :
                        /\ \A m \in ConnectedPorts : k <= m
                        /\ calc.result.method = MethodOfPort(k)
            /\ calc.result.status = "offline" <=>
                    (calc.ping = "offline" /\ ConnectedPorts = {})
            /\ calc.result.status \in {"online", "offline"}

\* ping failed, port 443 connected, 22 connected too, 80 was refused
C24_Witness ==
    /\ calc.fn = "multiProbe" /\ calc.pc = "returned"
    /\ calc.ping = "offline"
    /\ calc.checks = <<"offline", "online", "online", "threw", "offline", "offline">>
    /\ calc.result = [status |-> "online", method |-> "HTTPS"]

\* ------------------------------------------------------------------
\* remoteMonitorLoop() (index.js). Times are in seconds.

\* Date.now() when the loop function is called
RemoteStart == 100

\* iterations of the while loop explored
MaxRemoteCycles == 3

\* remoteDeviceLastCheck has no entry for the id
NoCheck == 0 - 1

RemoteIds == {1, 2, 3, 4}

\* the seconds a check takes (ping, TCP, HTTP, DNS or SSL, each with a timeout)
CheckSeconds == {0, 3}

\* the devices the controller knows: three in a remote_monitor segment, one
\* in a local segment
ControllerDevices ==
    <<[id |-> 1, check_interval_seconds |-> 5, target |-> TRUE, remote |-> TRUE],
      [id |-> 2, check_interval_seconds |-> 0, target |-> TRUE, remote |-> TRUE],
      [id |-> 3, check_interval_seconds |-> 5, target |-> TRUE, remote |-> FALSE],
      [id |-> 4, check_interval_seconds |-> 8, target |-> TRUE, remote |-> TRUE]>>

\* the state the call of remoteMonitorLoop() leaves at its first await,
\* the 10 s wait for the initial heartbeat. clock is the time of day (at a
\* sleep: when the sleep ends), now the Date.now() of the iteration, and
\* dispatched the time of day at which the check of a device was last started
RemoteStarted ==
    [pc |-> "sleep", clock |-> RemoteStart + 10, now |-> 0, cycles |-> 0,
     observed |-> FALSE, devices |-> <<>>, cursor |-> 0, reports |-> 0,
     lastCheck |-> [id \in RemoteIds |-> NoCheck],
     dispatched |-> [id \in RemoteIds |-> NoCheck]]

\* the ids of the remoteDevices of the current iteration
ActiveIds(r) == {r.devices[k].id : k \in 1..Len(r.devices)}

\* the end of an iteration: await new Promise(... setTimeout(resolve, ms))
RemoteSleep(r, seconds) ==
    [r EXCEPT !.pc = "sleep", !.clock = @ + seconds, !.cycles = @ + 1,
              !.cursor = 0, !.reports = 0]

\* for (const id of remoteDeviceLastCheck.keys()) if (!activeIds.has(id)) delete
PruneStale(r) ==
    [r EXCEPT !.lastCheck = [id \in RemoteIds |->
                                IF id \in ActiveIds(r) THEN r.lastCheck[id] ELSE NoCheck]]

\* after the for loop: the upload if there are reports, else the prune and
\* the 5 s sleep
RemoteAfterLoop(r) ==
    IF r.reports > 0
    THEN [r EXCEPT !.pc = "upload"]
    ELSE RemoteSleep(PruneStale(r), 5)

\* for (const device of remoteDevices) from position k to the next await
RECURSIVE RemoteIterate(_, _)
RemoteIterate(r, k) ==
    IF k > Len(r.devices)
    THEN RemoteAfterLoop(r)
    ELSE
        LET device == r.devices[k]
            interval == IF device.check_interval_seconds # 0
                        THEN device.check_interval_seconds ELSE 60
            lastCheck == IF r.lastCheck[device.id] = NoCheck
                         THEN 0 ELSE r.lastCheck[device.id]
            set == [r EXCEPT !.lastCheck[device.id] = r.now]
        IN IF r.now - lastCheck < interval THEN RemoteIterate(r, k + 1)
           ELSE IF ~device.target THEN RemoteIterate(set, k + 1)
           ELSE [set EXCEPT !.pc = "check", !.cursor = k,
                            !.dispatched[device.id] = r.clock]

RemoteFrame == UNCHANGED <<now, network, segmentStates, scanLoop, discoveredDevices,
                           deviceFailureCounts, lastKnownStatus, statusLoop, offlineRun,
                           config, cmdProcs, nextCmd, ackLog, uiProcs, uiCount, exited,
                           executed, heartbeat, calc, discovery, realtime, shutdown>>

\* start() calls remoteMonitorLoop()
RemoteLoopCalled ==
    /\ remote.pc = "off"
    /\ remote' = RemoteStarted
    /\ RemoteFrame

\* a sleep ends; segmentStates holds a remote_monitor segment or none
RemoteWake ==
    /\ remote.pc = "sleep"
    /\ remote.cycles < MaxRemoteCycles
    /\ \E remoteSegments \in BOOLEAN :
        remote' = IF ~remoteSegments
                  THEN RemoteSleep([remote EXCEPT !.devices = <<>>, !.observed = TRUE], 30)
                  ELSE [remote EXCEPT !.pc = "fetch", !.devices = <<>>,
                                      !.observed = FALSE]
    /\ RemoteFrame

\* client.getDevicesToMonitor() resolves with the devices S of the
\* controller; const now = Date.now() when remoteDevices is not empty
RemoteFetched ==
    /\ remote.pc = "fetch"
    /\ \E S \in SUBSET RemoteIds :
        LET picked(d) == d.id \in S
            allDevices == SelectSeq(ControllerDevices, picked)
            inRemote(d) == d.remote
            remoteDevices == SelectSeq(allDevices, inRemote)
            r == [remote EXCEPT !.devices = remoteDevices, !.observed = TRUE,
                                !.now = remote.clock]
        IN remote' = IF Len(remoteDevices) = 0
                     THEN RemoteSleep(r, 30)
                     ELSE RemoteIterate(r, 1)
    /\ RemoteFrame

\* client.getDevicesToMonitor() rejects: the catch of the iteration
RemoteFetchFailed ==
    /\ remote.pc = "fetch"
    /\ remote' = RemoteSleep(remote, 5)
    /\ RemoteFrame

\* the check of the device at the cursor resolves: reports.push(...)
RemoteCheckResolved ==
    /\ remote.pc = "check"
    /\ \E seconds \in CheckSeconds :
        remote' = RemoteIterate([remote EXCEPT !.reports = @ + 1,
                                               !.clock = @ + seconds],
                                remote.cursor + 1)
    /\ RemoteFrame

\* the check of the device at the cursor rejects: the inner catch
RemoteCheckRejected ==
    /\ remote.pc = "check"
    /\ \E seconds \in CheckSeconds :
        remote' = RemoteIterate([remote EXCEPT !.clock = @ + seconds],
                                remote.cursor + 1)
    /\ RemoteFrame

\* client.uploadStatusReports(reports) resolves: the prune, then the sleep
RemoteUploaded ==
    /\ remote.pc = "upload"
    /\ remote' = RemoteSleep(PruneStale(remote), 5)
    /\ RemoteFrame

\* client.uploadStatusReports(reports) rejects: the catch of the iteration
RemoteUploadFailed ==
    /\ remote.pc = "upload"
    /\ remote' = RemoteSleep(remote, 5)
    /\ RemoteFrame

InitRemote ==
    /\ InitAgent
    /\ network = {}
    /\ config = DefaultConfig

NextRemote ==
    \/ RemoteLoopCalled
    \/ RemoteWake
    \/ RemoteFetched
    \/ RemoteFetchFailed
    \/ RemoteCheckResolved
    \/ RemoteCheckRejected
    \/ RemoteUploaded
    \/ RemoteUploadFailed

SpecRemote == InitRemote /\ [][NextRemote]_vars

\* the step ends an iteration that learned the monitored set: the set the
\* controller returned, or the empty set when no remote_monitor segment is left
RemoteCycleObserved ==
    /\ remote.pc # "off"
    /\ remote'.cycles = remote.cycles + 1
    /\ remote'.observed

\* C25: at the end of a loop cycle no device outside the monitored set has an
\* entry in the last-check map, and the entry of a monitored device is the
\* one it had or the one its check of this cycle wrote
C25_StalePruned ==
    [][RemoteCycleObserved =>
        \A id \in RemoteIds :
            /\ id \notin ActiveIds(remote') => remote'.lastCheck[id] = NoCheck
            /\ id \in ActiveIds(remote') =>
                    remote'.lastCheck[id] \in {remote.lastCheck[id], remote.now}]_vars

\* (device.check_interval_seconds || 60), in seconds
IntervalOf(id) ==
    LET device == CHOOSE d \in Range(ControllerDevices) : d.id = id
    IN IF device.check_interval_seconds # 0 THEN device.check_interval_seconds ELSE 60

\* the step starts the check of device id
RemoteDispatched(id) ==
    /\ remote'.pc = "check"
    /\ remote'.devices[remote'.cursor].id = id
    /\ (remote.pc # "check" \/ remote'.cursor # remote.cursor)

\* C32: a check of a device is started only when at least the device's
\* check interval (default 60 s) has passed since the previous check of the
\* same device was started
C32_IntervalElapsed ==
    [][\A id \in RemoteIds :
        (RemoteDispatched(id) /\ remote.dispatched[id] # NoCheck) =>
            remote'.clock - remote.dispatched[id] >= IntervalOf(id)]_vars

\* ------------------------------------------------------------------
\* RealtimeClient (api/realtime.ts) and setupRealtimeClient (index.js).
\* A channel is "joining" after subscribe(), "joined" after SUBSCRIBED,
\* "errored" after CHANNEL_ERROR or TIMED_OUT (the library rejoins it),
\* "leaving" after unsubscribe() and "closed" after CLOSED.

\* const delay = 5000
ReconnectDelay == 5000

Credentials == {1, 2}

\* the channel is subscribed or being subscribed and was not unsubscribed
Live(state) == state \in {"joining", "joined", "errored"}

\* scheduleReconnect() without its first line
scheduleReconnectAlways(r) ==
    [r EXCEPT !.reconnectTimer = TRUE, !.timers = Append(@, ReconnectDelay)]

\* scheduleReconnect()
scheduleReconnect(r) ==
    IF r.reconnectTimer THEN r
    ELSE [r EXCEPT !.reconnectTimer = TRUE, !.timers = Append(@, ReconnectDelay)]

\* if (this.reconnectTimer) { clearTimeout(this.reconnectTimer); this.reconnectTimer = null }
ClearReconnectTimer(r) ==
    IF r.reconnectTimer
    THEN [r EXCEPT !.reconnectTimer = FALSE,
                   !.timers = IF Len(@) > 0 THEN SubSeq(@, 1, Len(@) - 1) ELSE @]
    ELSE r

\* channel.unsubscribe() / client.removeAllChannels() for the channel c
Unsubscribe(r, c) ==
    IF Live(r.chans[c]) THEN [r EXCEPT !.chans[c] = "leaving"] ELSE r

\* connect(): createClient, channel(...).on(...).subscribe(callback); or
\* the catch block when one of them throws
connect(r, threw) ==
    IF threw
    THEN [scheduleReconnect(r) EXCEPT !.owed = FALSE]
    ELSE [r EXCEPT !.client = r.next, !.channel = r.next, !.chans[r.next] = "joining",
                   !.next = @ + 1, !.owed = FALSE]

\* the end of disconnect(): this.connected = false; then the caller's
\* await this.connect(), which runs before any other event is handled
DisconnectEnd(r, threw) == connect([r EXCEPT !.connected = FALSE], threw)

\* disconnect() from this.client on, to its next await
DisconnectClient(r, threw) ==
    IF r.client # 0
    THEN [Unsubscribe(r, r.client) EXCEPT !.remove = @ + 1]
    ELSE DisconnectEnd(r, threw)

\* disconnect() up to its first await
DisconnectEnter(r, threw) ==
    LET r1 == ClearReconnectTimer(r)
    IN IF r1.channel # 0
       THEN [Unsubscribe(r1, r1.channel) EXCEPT !.unsub = @ + 1]
       ELSE DisconnectClient(r1, threw)

\* disconnect-then-connect sequences that are at an await
Reconnecting(r) == r.unsub + r.remove

\* updateCredentials(supabaseUrl, supabaseAnonKey) up to its first await
updateCredentials(r, creds, threw) ==
    IF r.creds = creds THEN r
    ELSE DisconnectEnter([r EXCEPT !.creds = creds], threw)

RealtimeFrame == UNCHANGED <<now, network, segmentStates, scanLoop, discoveredDevices,
                             deviceFailureCounts, lastKnownStatus, statusLoop, offlineRun,
                             config, cmdProcs, nextCmd, ackLog, uiProcs, uiCount, exited,
                             executed, heartbeat, calc, discovery, remote, shutdown>>

\* a heartbeat response carries credentials of the set C:
\* setupRealtimeClient(...)
SetupRealtimeClientWith(C) ==
    /\ ~exited
    /\ realtime.setups < MaxSetups
    /\ Reconnecting(realtime) < MaxReconnects
    /\ realtime.next <= MaxChannels
    /\ \E creds \in C, threw \in BOOLEAN :
        LET r == [realtime EXCEPT !.setups = @ + 1]
        IN realtime' = IF ~realtime.exists
                       THEN connect([r EXCEPT !.exists = TRUE, !.creds = creds], threw)
                       ELSE updateCredentials(r, creds, threw)
    /\ RealtimeFrame

SetupRealtimeClient == SetupRealtimeClientWith(Credentials)

\* await this.channel.unsubscribe() resolves
UnsubscribeResolved ==
    /\ ~exited
    /\ realtime.unsub > 0
    /\ realtime.next <= MaxChannels
    /\ \E threw \in BOOLEAN :
        realtime' = DisconnectClient([realtime EXCEPT !.unsub = @ - 1, !.channel = 0], threw)
    /\ RealtimeFrame

\* await this.client.removeAllChannels() resolves
RemoveAllResolved ==
    /\ ~exited
    /\ realtime.remove > 0
    /\ realtime.next <= MaxChannels
    /\ \E threw \in BOOLEAN :
        realtime' = DisconnectEnd([realtime EXCEPT !.remove = @ - 1, !.client = 0], threw)
    /\ RealtimeFrame

\* a pending timeout fires: the callback of scheduleReconnect
ReconnectTimerFired ==
    /\ ~exited
    /\ Len(realtime.timers) > 0
    /\ realtime.connected
        \/ (Reconnecting(realtime) < MaxReconnects /\ realtime.next <= MaxChannels)
    /\ \E threw \in BOOLEAN :
        LET r == [realtime EXCEPT !.timers = Tail(@), !.reconnectTimer = FALSE]
        IN realtime' = IF ~r.connected THEN DisconnectEnter(r, threw) ELSE r
    /\ RealtimeFrame

\* the state of channel c after it reported status, or "free" if a
\* channel in that state does not report it
Reported(state, status) ==
    CASE status = "SUBSCRIBED" /\ state \in {"joining", "errored"} -> "joined"
      [] status = "CHANNEL_ERROR" /\ state \in {"joining", "joined"} -> "errored"
      [] status = "TIMED_OUT" /\ state = "joining" -> "errored"
      [] status = "CLOSED" /\ state \in {"joining", "joined", "errored", "leaving"} -> "closed"
      [] OTHER -> "free"

\* the subscribe callback of channel c runs with status
ChannelReported ==
    /\ ~exited
    /\ \E c \in 1..MaxChannels,
          status \in {"SUBSCRIBED", "CHANNEL_ERROR", "TIMED_OUT", "CLOSED"} :
        /\ Reported(realtime.chans[c], status) # "free"
        /\ LET r == [realtime EXCEPT !.chans[c] = Reported(realtime.chans[c], status)]
           IN realtime' =
                IF status = "SUBSCRIBED"
                THEN ClearReconnectTimer([r EXCEPT !.connected = TRUE, !.owed = FALSE])
                ELSE IF status \in {"CLOSED", "CHANNEL_ERROR"}
                THEN scheduleReconnect([r EXCEPT !.connected = FALSE, !.owed = TRUE])
                ELSE r
    /\ RealtimeFrame

InitRealtime ==
    /\ InitAgent
    /\ network = {}
    /\ config = DefaultConfig

NextRealtime ==
    \/ SetupRealtimeClient
    \/ UnsubscribeResolved
    \/ RemoveAllResolved
    \/ ReconnectTimerFired
    \/ ChannelReported

SpecRealtime == InitRealtime /\ [][NextRealtime]_vars

\* timers fire and awaited calls resolve; what the channels report and
\* when credentials change is up to the environment
SpecRealtimeFair ==
    /\ SpecRealtime
    /\ WF_vars(ReconnectTimerFired)
    /\ WF_vars(UnsubscribeResolved)
    /\ WF_vars(RemoveAllResolved)

\* every connect() call explored has been made
ChannelsExhausted == realtime.next > MaxChannels

\* at most one reconnect timer is pending, with a delay of 5 s, and while
\* the last report was CLOSED or CHANNEL_ERROR the client is disconnected
\* and a reconnect is pending or running
ReconnectScheduled ==
    /\ Len(realtime.timers) <= 1
    /\ \A i \in 1..Len(realtime.timers) : realtime.timers[i] = 5000
    /\ realtime.owed =>
        /\ ~realtime.connected
        /\ Len(realtime.timers) = 1
            \/ realtime.unsub + realtime.remove > 0

LiveChannels == {c \in 1..MaxChannels : realtime.chans[c] \in {"joining", "joined", "errored"}}

\* C27: at most one command subscription is live at any time, and
\* updateCredentials with unchanged credentials changes nothing
C27_OneSubscription ==
    /\ [](Cardinality(LiveChannels) <= 1)
    /\ [][(realtime.exists /\ realtime'.setups # realtime.setups
                /\ realtime'.creds = realtime.creds)
            => realtime' = [realtime EXCEPT !.setups = realtime'.setups]]_vars

\* the channel the client holds reported SUBSCRIBED and no failure since
CurrentSubscribed ==
    /\ realtime.channel # 0
    /\ realtime.chans[realtime.channel] = "joined"

\* the step is the report of CLOSED by a channel that was unsubscribed
StaleClosed(c) ==
    /\ realtime.chans[c] = "leaving"
    /\ realtime'.chans[c] = "closed"
    /\ c # realtime.channel

\* C34: a CLOSED report of a channel the client has torn down, arriving
\* while the current channel is subscribed, leaves the client connected
\* and starts no reconnect timer; while the current channel is subscribed
\* and has reported no failure the client is connected and no reconnect
\* timer is pending
C34_StaleStatusIgnored ==
    /\ [][\A c \in 1..MaxChannels :
            (StaleClosed(c) /\ CurrentSubscribed /\ realtime.connected) =>
                (realtime'.connected /\ realtime'.timers = realtime.timers)]_vars
    /\ [](CurrentSubscribed => (realtime.connected /\ realtime.timers = <<>>))

\* ------------------------------------------------------------------
\* The segment table with the segment definitions (index.js: the segment
\* diff of heartbeatLoop, autoScanCheck). An entry is [id, lastScan,
\* scanning, segment], segment being the object of the response.

SegmentDefs == {1, 2}

\* response.segments: arrays of segment objects with distinct ids
SegmentResponses ==
    UNION {{[k \in 1..Len(ids) |-> [id |-> ids[k], def |-> defs[k]]] :
                defs \in [1..Len(ids) -> SegmentDefs]} : ids \in Arrays(SegIds)}

\* segmentStates.set(segment.id, { segment, lastScan: 0, scanning: false })
SetSegment(segs, segment) ==
    LET state == [id |-> segment.id, lastScan |-> 0, scanning |-> FALSE,
                  segment |-> segment]
    IN IF HasSegment(segs, segment.id)
       THEN [segs EXCEPT ![SegIndex(segs, segment.id)] = state]
       ELSE Append(segs, state)

\* the body of the loop setting a new state also for an id the table has
UpdateSegmentReset(segs, segment) == SetSegment(segs, segment)

\* the body of for (const segment of response.segments)
UpdateSegment(segs, segment) ==
    IF ~HasSegment(segs, segment.id)
    THEN SetSegment(segs, segment)
    ELSE [segs EXCEPT ![SegIndex(segs, segment.id)].segment = segment]

\* the segments of the response applied from position k on
RECURSIVE UpdateSegmentsFrom(_, _, _)
UpdateSegmentsFrom(segs, response, k) ==
    IF k > Len(response) THEN segs
    ELSE UpdateSegmentsFrom(UpdateSegment(segs, response[k]), response, k + 1)

\* the ids of the segments of a response
ResponseIds(response) == {response[k].id : k \in 1..Len(response)}

\* heartbeatLoop: remove old segments, then add/update segments
UpdateSegments(segs, response) ==
    LET kept(e) == e.id \in ResponseIds(response)
    IN UpdateSegmentsFrom(SelectSeq(segs, kept), response, 1)

\* the agent starts: autoScanCheck() is at its 5 s wait; no heartbeat
\* has succeeded yet
InitSegments ==
    /\ InitState
    /\ network = {Host1}
    /\ \E enableAutoScan \in BOOLEAN :
        config = [DefaultConfig EXCEPT !.enableAutoScan = enableAutoScan]
    /\ calc = [fn |-> "autoScanCheck", pc |-> "wait", beat |-> 0, segments |-> <<>>]

SegmentsFrame == UNCHANGED <<now, network, discoveredDevices, deviceFailureCounts,
                             lastKnownStatus, statusLoop, offlineRun, config, cmdProcs,
                             nextCmd, ackLog, uiProcs, uiCount, exited, executed,
                             discovery, remote, realtime, shutdown>>

\* await client.heartbeat(...) resolves with response.segments and no
\* command; calc records the response and counts the heartbeats modulo 2
HeartbeatSegments ==
    /\ ~exited
    /\ heartbeat.pc = "wait"
    /\ \E response \in SegmentResponses :
        /\ segmentStates' = UpdateSegments(segmentStates, response)
        /\ scanLoop' = Rebase(segmentStates, ResponseIds(response), scanLoop)
        /\ calc' = [calc EXCEPT !.beat = 1 - @, !.segments = response]
    /\ heartbeat' = [pc |-> "wait", retryDelay |-> BaseRetryDelay,
                     wait |-> HeartbeatWait(heartbeat, config), connected |-> TRUE]
    /\ SegmentsFrame

\* the 5 s wait of autoScanCheck ends
AutoScanWake ==
    /\ calc.fn = "autoScanCheck" /\ calc.pc = "wait"
    /\ \E localNetwork \in BOOLEAN :
        calc' = [calc EXCEPT !.pc = IF config.enableAutoScan /\ Len(segmentStates) = 0
                                        /\ localNetwork
                                     THEN "register" ELSE "done"]
    /\ UNCHANGED <<segmentStates, scanLoop, heartbeat>>
    /\ SegmentsFrame

\* await client.registerAutoSegment(...) resolves with a segment
AutoSegmentRegistered ==
    /\ calc.fn = "autoScanCheck" /\ calc.pc = "register"
    /\ \E id \in SegIds :
        /\ segmentStates' = SetSegment(segmentStates, [id |-> id, def |-> 1])
        /\ scanLoop' = IF scanLoop.seg = id THEN [scanLoop EXCEPT !.attached = FALSE]
                       ELSE scanLoop
    /\ calc' = [calc EXCEPT !.pc = "done"]
    /\ UNCHANGED heartbeat
    /\ SegmentsFrame

\* await client.registerAutoSegment(...) rejects: catch
AutoSegmentFailed ==
    /\ calc.fn = "autoScanCheck" /\ calc.pc = "register"
    /\ calc' = [calc EXCEPT !.pc = "done"]
    /\ UNCHANGED <<segmentStates, scanLoop, heartbeat>>
    /\ SegmentsFrame

NextSegments ==
    \/ HeartbeatSegments
    \/ AutoScanWake
    \/ AutoSegmentRegistered
    \/ AutoSegmentFailed
    \/ Tick
    \/ ScanLoopWake
    \/ ScanLoopDiscovered
    \/ ScanLoopDiscoverFailed
    \/ ScanLoopUploaded

SpecSegments == InitSegments /\ [][NextSegments]_vars

\* the entries of the table segs with the id
EntriesOf(segs, id) == {i \in 1..Len(segs) : segs[i].id = id}

\* C28: a successful heartbeat leaves exactly the ids of its response in the
\* segment table, each once and with the segment of the response; an id that
\* was not in the table gets lastScan = 0 and scanning = false, an id that
\* was keeps its lastScan and scanning
C28_SegmentsFollowResponse ==
    [][calc'.beat # calc.beat =>
        /\ {segmentStates'[i].id : i \in 1..Len(segmentStates')}
                = {calc'.segments[k].id : k \in 1..Len(calc'.segments)}
        /\ \A i \in 1..Len(segmentStates') :
            LET e == segmentStates'[i]
                old == EntriesOf(segmentStates, e.id)
            IN /\ EntriesOf(segmentStates', e.id) = {i}
               /\ \E k \in 1..Len(calc'.segments) : e.segment = calc'.segments[k]
               /\ e.segment.id = e.id
               /\ old = {} => (e.lastScan = 0 /\ e.scanning = FALSE)
               /\ \A j \in old : /\ e.lastScan = segmentStates[j].lastScan
                                 /\ e.scanning = segmentStates[j].scanning]_vars

\* a heartbeat replaced the definition of segA while its scan was running
\* and removed segB
C28_Witness ==
    /\ calc.fn = "autoScanCheck"
    /\ calc.segments = <<[id |-> "segA", def |-> 2]>>
    /\ Len(segmentStates) = 1
    /\ segmentStates[1] = [id |-> "segA", lastScan |-> StartTime, scanning |-> TRUE,
                           segment |-> [id |-> "segA", def |-> 2]]
    /\ scanLoop.pc = "discover" /\ scanLoop.seg = "segA" /\ scanLoop.attached

\* ------------------------------------------------------------------
\* The device table with all the fields of a DeviceInfo (index.js: the
\* merge after discoverDevices in scanLoop and in the UI scan handler).
\* Addresses are strings here; an undefined string is "".

TableHosts == {"10.0.0.1", "10.0.0.2"}

\* responseTime / lastCheck is undefined
NoValue == 0 - 1

\* ISO timestamps the status loop writes, as numbers
MaxChecks == 2

\* the arrays discoverDevices resolves with: at most one device per address
ScanResults ==
    UNION {{[k \in 1..Len(ips) |->
                [ip_address |-> ips[k], hostname |-> h[ips[k]], mac_address |-> m[ips[k]]]] :
                h \in [TableHosts -> {"", "nas.local"}],
                m \in [TableHosts -> {"AA:AA", "BB:BB"}]} :
           ips \in Arrays(TableHosts)}

\* const deviceInfo = {...} with status 'unknown' and no responseTime and
\* lastCheck whatever the Map holds
FreshDeviceInfo(device, tab) ==
    [id |-> device.ip_address,
     name |-> IF device.hostname # "" THEN device.hostname ELSE device.ip_address,
     ip |-> device.ip_address, mac |-> device.mac_address,
     status |-> "unknown", responseTime |-> NoValue, lastCheck |-> NoValue,
     inUi |-> FALSE]

\* const existing = discoveredDevices.get(deviceKey); const deviceInfo = {...}
DeviceInfo(device, tab) ==
    LET i == DevIndex(tab, device.ip_address)
    IN [id |-> device.ip_address,
        name |-> IF device.hostname # "" THEN device.hostname ELSE device.ip_address,
        ip |-> device.ip_address, mac |-> device.mac_address,
        status |-> IF i = 0 THEN "unknown" ELSE tab[i].status,
        responseTime |-> IF i = 0 THEN NoValue ELSE tab[i].responseTime,
        lastCheck |-> IF i = 0 THEN NoValue ELSE tab[i].lastCheck,
        inUi |-> FALSE]

\* for (const device of devices) { ... discoveredDevices.set(deviceKey, deviceInfo) }
\* from position k on
RECURSIVE MergeScanFrom(_, _, _)
MergeScanFrom(tab, devices, k) ==
    IF k > Len(devices) THEN tab
    ELSE LET i == DevIndex(tab, devices[k].ip_address)
             info == DeviceInfo(devices[k], tab)
         IN MergeScanFrom(IF i = 0 THEN Append(tab, info) ELSE [tab EXCEPT ![i] = info],
                          devices, k + 1)

\* the merge of a scan result, then uiServer.updateDevices(...)
MergeScan(tab, devices) == updateDevices(MergeScanFrom(tab, devices, 1))

InitTable ==
    /\ InitState
    /\ network = {}
    /\ config = DefaultConfig
    /\ calc = [fn |-> "scan", beat |-> 0, devices |-> <<>>, checks |-> 0]

TableFrame == UNCHANGED <<now, network, segmentStates, scanLoop, deviceFailureCounts,
                          lastKnownStatus, statusLoop, offlineRun, config, cmdProcs,
                          nextCmd, ackLog, uiProcs, uiCount, exited, executed, heartbeat,
                          discovery, remote, realtime, shutdown>>

\* scanLoop: await discoverDevices(...) resolves with devices; calc records
\* the array and counts the merges modulo 2
ScanLoopMerged ==
    /\ calc.fn = "scan"
    /\ \E devices \in ScanResults :
        /\ discoveredDevices' = MergeScan(discoveredDevices, devices)
        /\ calc' = [calc EXCEPT !.beat = 1 - @, !.devices = devices]
    /\ TableFrame

\* the UI scan handler: await discoverDevices(...) resolves with devices
UiScanMerged ==
    /\ calc.fn = "scan"
    /\ \E devices \in ScanResults :
        /\ discoveredDevices' = MergeScan(discoveredDevices, devices)
        /\ calc' = [calc EXCEPT !.beat = 1 - @, !.devices = devices]
    /\ TableFrame

\* statusCheckLoop: device.status = status; device.responseTime = ...;
\* device.lastCheck = new Date().toISOString() on an object of the Map
StatusWritten ==
    /\ calc.fn = "scan"
    /\ calc.checks < MaxChecks
    /\ \E i \in 1..Len(discoveredDevices), status \in {"online", "offline"} :
        discoveredDevices' =
            [discoveredDevices EXCEPT
                ![i].status = status,
                ![i].responseTime = IF status = "online" THEN 5 ELSE NoValue,
                ![i].lastCheck = calc.checks + 1]
    /\ calc' = [calc EXCEPT !.checks = @ + 1]
    /\ TableFrame

NextTable ==
    \/ ScanLoopMerged
    \/ UiScanMerged
    \/ StatusWritten

SpecTable == InitTable /\ [][NextTable]_vars

\* the positions of the array at which the address is ip
FoundAt(devices, ip) == {k \in 1..Len(devices) : devices[k].ip_address = ip}

\* C29: after the merge of a scan result an entry whose address is in the
\* result has name, ip and mac of the discovery and status, responseTime and
\* lastCheck of the prior entry for the address, or status unknown when
\* there was none; the entries of other addresses are as they were
C29_MergeKeepsStatus ==
    [][calc'.beat # calc.beat =>
        /\ Len(discoveredDevices') >= Len(discoveredDevices)
        /\ \A i \in 1..Len(discoveredDevices) :
                discoveredDevices'[i].ip = discoveredDevices[i].ip
        /\ \A i \in 1..Len(discoveredDevices') :
            LET e == discoveredDevices'[i]
                found == FoundAt(calc'.devices, e.ip)
                prior == {j \in 1..Len(discoveredDevices) : discoveredDevices[j].ip = e.ip}
            IN /\ \A j \in 1..Len(discoveredDevices') :
                        discoveredDevices'[j].ip = e.ip => j = i
               /\ found # {} \/ prior # {}
               /\ \A k \in found :
                    /\ e.name = IF calc'.devices[k].hostname # ""
                                THEN calc'.devices[k].hostname
                                ELSE calc'.devices[k].ip_address
                    /\ e.mac = calc'.devices[k].mac_address
               /\ \A j \in prior :
                    /\ e.status = discoveredDevices[j].status
                    /\ e.responseTime = discoveredDevices[j].responseTime
                    /\ e.lastCheck = discoveredDevices[j].lastCheck
                    /\ found = {} =>
                        /\ e.name = discoveredDevices[j].name
                        /\ e.mac = discoveredDevices[j].mac
               /\ prior = {} => e.status = "unknown"]_vars

\* a scan found 10.0.0.1 again, now with a hostname and another MAC: the
\* entry keeps its status, responseTime and lastCheck; 10.0.0.2, which the
\* scan did not find, is as it was
C29_Witness ==
    /\ calc.fn = "scan"
    /\ calc.devices = <<[ip_address |-> "10.0.0.1", hostname |-> "nas.local",
                         mac_address |-> "BB:BB"]>>
    /\ Len(discoveredDevices) = 2
    /\ discoveredDevices[1] =
            [id |-> "10.0.0.1", name |-> "nas.local", ip |-> "10.0.0.1", mac |-> "BB:BB",
             status |-> "online", responseTime |-> 5, lastCheck |-> 1, inUi |-> TRUE]
    /\ discoveredDevices[2] =
            [id |-> "10.0.0.2", name |-> "10.0.0.2", ip |-> "10.0.0.2", mac |-> "AA:AA",
             status |-> "offline", responseTime |-> NoValue, lastCheck |-> 2, inUi |-> TRUE]

\* ------------------------------------------------------------------
\* the worker pools of pingSweep, portScan (port-scan.ts) and grabBanners
\* (banner.js): Math.min(concurrency, queue.length) workers drain one queue

MaxConcurrency == 3
MaxQueue == 5
PoolFunctions == {"pingSweep", "portScan", "grabBanners"}

\* one worker for every entry of the queue
WorkerCountAll(concurrency, n) == n

\* Array(Math.min(concurrency, queue.length))
WorkerCount(concurrency, n) == Min(concurrency, n)

\* the workers that await a probe (0: the worker's loop has ended)
InFlight(P) == {w \in DOMAIN P.workers : P.workers[w] # 0}

\* while (queue.length > 0) { const t = queue.shift(); await probe(t) ... }:
\* worker w at the head of its loop takes the next target, or ends
WorkerLoop(P, w) ==
    IF Len(P.queue) > 0
    THEN LET t == Head(P.queue)
         IN [P EXCEPT !.queue = Tail(P.queue),
                      !.workers[w] = t,
                      !.probes[t] = P.probes[t] + 1,
                      !.by[t] = P.by[t] \cup {w}]
    ELSE [P EXCEPT !.workers[w] = 0]

\* .map(async () => ...): the callbacks run one after the other, each up to
\* its first await
RECURSIVE StartWorkers(_, _)
StartWorkers(P, w) ==
    IF w > Len(P.workers) THEN P ELSE StartWorkers(WorkerLoop(P, w), w + 1)

\* await Promise.all(workers) resolves when every worker has ended
PoolSettle(P) == IF InFlight(P) = {} THEN [P EXCEPT !.pc = "returned"] ELSE P

InitPool ==
    /\ InitState
    /\ network = {Host1}
    /\ config = DefaultConfig
    /\ \E fn \in PoolFunctions, c \in 1..MaxConcurrency, n \in 0..MaxQueue :
        calc = [fn |-> "args", pool |-> fn, concurrency |-> c, n |-> n]

\* the function is called: the queue is a copy of the targets, the workers
\* are created and each runs up to its first probe
PoolCalled ==
    /\ calc.fn = "args"
    /\ calc' = PoolSettle(StartWorkers(
                 [fn |-> calc.pool, pc |-> "running",
                  concurrency |-> calc.concurrency, n |-> calc.n,
                  queue |-> [t \in 1..calc.n |-> t],
                  workers |-> [w \in 1..WorkerCount(calc.concurrency, calc.n) |-> 0],
                  probes |-> [t \in 1..calc.n |-> 0],
                  by |-> [t \in 1..calc.n |-> {}],
                  results |-> {}, hung |-> {}], 1))
    /\ CalcFrame

\* the probe a worker awaits resolves (pingHost, checkPort and grabBanner
\* never reject): the worker keeps the result and goes round its loop
PoolProbeResolved ==
    /\ calc.fn \in PoolFunctions /\ calc.pc = "running"
    /\ \E w \in InFlight(calc) \ calc.hung, found \in BOOLEAN :
        calc' = PoolSettle(WorkerLoop(
                    [calc EXCEPT !.results =
                        IF found THEN calc.results \cup {calc.workers[w]}
                        ELSE calc.results], w))
    /\ CalcFrame

\* grabBanner: the service sent 512 bytes, socket.destroy() in the data
\* handler; neither end, timeout nor error follows and the promise stays
\* pending
BannerNeverResolves ==
    /\ calc.fn = "grabBanners" /\ calc.pc = "running"
    /\ \E w \in InFlight(calc) \ calc.hung :
        calc' = [calc EXCEPT !.hung = calc.hung \cup {w}]
    /\ CalcFrame

NextPool ==
    \/ PoolCalled
    \/ PoolProbeResolved
    \/ BannerNeverResolves

SpecPool == InitPool /\ [][NextPool]_vars

\* C31: in the worker pools of pingSweep, portScan and grabBanners at most
\* `concurrency` probes are in flight, a target is probed at most once and
\* by one worker, a target is in the queue until its probe starts, and the
\* function has returned exactly when the queue is empty and every worker
\* has ended; then every target has been probed exactly once
C31_WorkerPool ==
    calc.fn \in PoolFunctions =>
        /\ Cardinality(InFlight(calc)) <= calc.concurrency
        /\ \A t \in 1..calc.n :
            /\ calc.probes[t] <= 1
            /\ Cardinality(calc.by[t]) = calc.probes[t]
            /\ (calc.probes[t] = 0) <=> (t \in Range(calc.queue))
        /\ \A w \in InFlight(calc) : calc.by[calc.workers[w]] = {w}
        /\ \A w1, w2 \in InFlight(calc) :
            calc.workers[w1] = calc.workers[w2] => w1 = w2
        /\ (calc.pc = "returned") <=> (calc.queue = <<>> /\ InFlight(calc) = {})
        /\ calc.pc = "returned" => \A t \in 1..calc.n : calc.probes[t] = 1

\* a queue of five drained by two workers, both of which took later targets
C31_Witness ==
    /\ calc.fn = "portScan" /\ calc.pc = "returned"
    /\ calc.n = 5 /\ calc.concurrency = 2
    /\ \E t1, t2 \in 3..5 : calc.by[t1] = {1} /\ calc.by[t2] = {2}

\* ------------------------------------------------------------------
\* shutdown() on SIGINT / SIGTERM (index.js), AgentUIServer.stop() and the
\* while (isRunning) heads of the four loops. A loop is "body" while it
\* awaits a call of its iteration (a request, a scan, a probe), "sleep"
\* while it awaits the timeout that ends the iteration, "ended" after its
\* while loop was left.

\* the head of a loop that does not read isRunning
LoopHeadAlways(isRunning) == "body"

\* while (isRunning) { ... }
LoopHead(isRunning) == IF isRunning THEN "body" ELSE "ended"

ShutdownFrame == UNCHANGED <<now, network, segmentStates, scanLoop, discoveredDevices,
                             deviceFailureCounts, lastKnownStatus, statusLoop, offlineRun,
                             config, cmdProcs, nextCmd, ackLog, uiProcs, uiCount,
                             executed, heartbeat, calc, discovery, remote>>

\* Promise.all([heartbeatLoop(), scanLoop(), statusCheckLoop(),
\* remoteMonitorLoop()]): each call runs to its first await, which in
\* remoteMonitorLoop is the 10 s wait in front of the while loop
LoopsStarted ==
    /\ ~exited
    /\ \A l \in LoopNames : shutdown.loops[l] = "off"
    /\ shutdown' = [shutdown EXCEPT !.loops = [l \in LoopNames |->
                        IF l = "remoteMonitorLoop" THEN "sleep"
                        ELSE LoopHead(shutdown.isRunning)]]
    /\ UNCHANGED <<exited, realtime>>
    /\ ShutdownFrame

\* the timeout a loop sleeps on fires: the loop is at its head again
LoopWake ==
    /\ ~exited
    /\ \E l \in LoopNames :
        /\ shutdown.loops[l] = "sleep"
        /\ shutdown' = [shutdown EXCEPT !.loops[l] = LoopHead(shutdown.isRunning)]
    /\ UNCHANGED <<exited, realtime>>
    /\ ShutdownFrame

\* the call a loop awaits in its iteration settles: the iteration goes on
\* to its next call, or to the sleep at its end
LoopAwaitSettled ==
    /\ ~exited
    /\ \E l \in LoopNames, next \in {"body", "sleep"} :
        /\ shutdown.loops[l] = "body"
        /\ shutdown' = [shutdown EXCEPT !.loops[l] = next]
    /\ UNCHANGED <<exited, realtime>>
    /\ ShutdownFrame

\* await uiServer.stop(): clearInterval, this.io.close(), this.httpServer.close(cb)
UiStopCalled(sd) == [sd EXCEPT !.pc = "stop", !.order = Append(@, "stop")]

\* the end of realtimeClient.disconnect(): this.connected = false; shutdown
\* goes on to uiServer.stop()
ShutdownDisconnected(r, sd) ==
    [r |-> [r EXCEPT !.connected = FALSE], sd |-> UiStopCalled(sd)]

\* realtimeClient.disconnect() from this.client on, to its next await
ShutdownDisconnectClient(r, sd) ==
    IF r.client # 0
    THEN [r |-> Unsubscribe(r, r.client), sd |-> [sd EXCEPT !.pc = "removeAllChannels"]]
    ELSE ShutdownDisconnected(r, sd)

\* isRunning = false; if (realtimeClient) await realtimeClient.disconnect(),
\* to the first await
ShutdownEnter(r, sd) ==
    LET sd1 == [sd EXCEPT !.isRunning = FALSE, !.order = Append(@, "isRunning"),
                          !.hadClient = r.exists]
        sd2 == [sd1 EXCEPT !.order = Append(@, "disconnect")]
        r1 == ClearReconnectTimer(r)
    IN IF ~r.exists THEN [r |-> r, sd |-> UiStopCalled(sd1)]
       ELSE IF r1.channel # 0
       THEN [r |-> Unsubscribe(r1, r1.channel), sd |-> [sd2 EXCEPT !.pc = "unsubscribe"]]
       ELSE ShutdownDisconnectClient(r1, sd2)

\* SIGINT or SIGTERM: shutdown() is called
ShutdownCalled ==
    /\ ~exited
    /\ shutdown.pc = "idle"
    /\ LET w == ShutdownEnter(realtime, shutdown)
       IN realtime' = w.r /\ shutdown' = w.sd
    /\ UNCHANGED exited
    /\ ShutdownFrame

\* await this.channel.unsubscribe() of shutdown's disconnect() resolves
ShutdownUnsubscribed ==
    /\ ~exited
    /\ shutdown.pc = "unsubscribe"
    /\ LET w == ShutdownDisconnectClient([realtime EXCEPT !.channel = 0], shutdown)
       IN realtime' = w.r /\ shutdown' = w.sd
    /\ UNCHANGED exited
    /\ ShutdownFrame

\* await this.client.removeAllChannels() of shutdown's disconnect() resolves
ShutdownChannelsRemoved ==
    /\ ~exited
    /\ shutdown.pc = "removeAllChannels"
    /\ LET w == ShutdownDisconnected([realtime EXCEPT !.client = 0], shutdown)
       IN realtime' = w.r /\ shutdown' = w.sd
    /\ UNCHANGED exited
    /\ ShutdownFrame

\* httpServer.close calls back without an error: stop() resolves and
\* shutdown calls process.exit(0)
UiStopResolved ==
    /\ ~exited
    /\ shutdown.pc = "stop"
    /\ shutdown' = [shutdown EXCEPT !.pc = "exit", !.order = Append(@, "exit")]
    /\ exited' = TRUE
    /\ UNCHANGED realtime
    /\ ShutdownFrame

\* httpServer.close calls back with an error: stop() rejects, and so does
\* shutdown(), which nothing catches; the rejection ends the process
UiStopRejected ==
    /\ ~exited
    /\ shutdown.pc = "stop"
    /\ shutdown' = [shutdown EXCEPT !.pc = "rejected", !.order = Append(@, "exit")]
    /\ exited' = TRUE
    /\ UNCHANGED realtime
    /\ ShutdownFrame

\* the controller keeps the credentials it hands out
SetupRealtimeClientSame == SetupRealtimeClientWith({1})

InitShutdown ==
    /\ InitAgent
    /\ network = {}
    /\ config = DefaultConfig

NextShutdown ==
    \/ LoopsStarted
    \/ LoopWake
    \/ LoopAwaitSettled
    \/ ShutdownCalled
    \/ ShutdownUnsubscribed
    \/ ShutdownChannelsRemoved
    \/ UiStopResolved
    \/ UiStopRejected
    \/ SetupRealtimeClientSame
    \/ ChannelReported

SpecShutdown == InitShutdown /\ [][NextShutdown]_vars

\* the calls shutdown() awaits settle; nothing is assumed of the loops
SpecShutdownFair ==
    /\ SpecShutdown
    /\ WF_vars(ShutdownUnsubscribed)
    /\ WF_vars(ShutdownChannelsRemoved)
    /\ WF_vars(UiStopResolved \/ UiStopRejected)

\* s is an initial part of t
IsPrefix(s, t) == Len(s) <= Len(t) /\ \A k \in 1..Len(s) : s[k] = t[k]

\* what shutdown() has done so far is an initial part of: isRunning = false,
\* disconnect of the push channel (when there is a client), stop of the UI
\* server, exit; hadClient tells whether realtimeClient was set at the signal
ShutdownInOrder ==
    /\ \/ IsPrefix(shutdown.order, <<"isRunning", "disconnect", "stop", "exit">>)
       \/ IsPrefix(shutdown.order, <<"isRunning", "stop", "exit">>)
    /\ shutdown.order # <<>> => ~shutdown.isRunning
    /\ Len(shutdown.order) >= 2 => (shutdown.order[2] = "disconnect" <=> shutdown.hadClient)
    /\ exited <=> (shutdown.order # <<>> /\ shutdown.order[Len(shutdown.order)] = "exit")

\* the step takes loop l to a call of an iteration it was not in
IterationBegun(l) == shutdown'.loops[l] = "body" /\ shutdown.loops[l] # "body"

\* C33: on a signal the agent sets isRunning to false, disconnects the push
\* channel, stops the UI server and exits, in that order; once isRunning is
\* false no loop begins an iteration; and the process ends whatever the
\* loops are waiting for
C33_ShutdownOrder ==
    /\ []ShutdownInOrder
    /\ [][~shutdown.isRunning => \A l \in LoopNames : ~IterationBegun(l)]_vars
    /\ (~shutdown.isRunning) ~> exited

\* the process has exited through process.exit(0) after a disconnect of the
\* push channel, with a scan or probe still awaited and another loop ended
C33_Witness ==
    /\ exited
    /\ shutdown.order = <<"isRunning", "disconnect", "stop", "exit">>
    /\ shutdown.pc = "exit"
    /\ shutdown.loops["scanLoop"] = "body"
    /\ shutdown.loops["heartbeatLoop"] = "ended"

\* ---------------------------------------------------------------------
\* The controller becomes unreachable: heartbeats succeed or fail while the
\* scan loop goes on scanning the segments the agent holds
InitOutage ==
    /\ InitAgent
    /\ network = {Host1}
    /\ config = DefaultConfig

HeartbeatOutage == Heartbeat({<<>>, <<"segA">>, <<"segA", "segB">>}, {}, 0)

NextOutage ==
    \/ HeartbeatOutage
    \/ HeartbeatFailed
    \/ Tick
    \/ ScanLoopWake
    \/ ScanLoopDiscovered
    \/ ScanLoopDiscoverFailed
    \/ ScanLoopUploaded

SpecOutage == InitOutage /\ [][NextOutage]_vars

\* the step is the catch block of heartbeatLoop: only a failure leaves
\* retryDelay above its base value
HeartbeatFailedStep ==
    /\ heartbeat' # heartbeat
    /\ heartbeat'.retryDelay > BaseRetryDelay

\* the latest heartbeat failed
ControllerUnreachable == heartbeat.retryDelay > BaseRetryDelay

\* C37: a failed heartbeat leaves segmentStates as it was (no segment
\* added, removed, or with another lastScan or scanning value) and sets the
\* UI connection state to disconnected; the state stays disconnected for
\* as long as the latest heartbeat is a failed one, and only a successful
\* heartbeat sets it to connected again
C37_FailedHeartbeatKeepsSegments ==
    /\ [][HeartbeatFailedStep =>
            /\ segmentStates' = segmentStates
            /\ scanLoop' = scanLoop
            /\ ~heartbeat'.connected]_vars
    /\ [](ControllerUnreachable => ~heartbeat.connected)
    /\ [][(~heartbeat.connected /\ heartbeat'.connected) =>
            heartbeat'.retryDelay = BaseRetryDelay]_vars

\* after two failed heartbeats in a row the UI shows disconnected, and the
\* segment assigned earlier is being scanned at the latest time
C37_Witness ==
    /\ heartbeat.retryDelay >= 4 * BaseRetryDelay
    /\ ~heartbeat.connected
    /\ Len(segmentStates) = 2
    /\ scanLoop.pc = "discover"
    /\ \E k \in 1..Len(segmentStates) :
        segmentStates[k].scanning /\ segmentStates[k].lastScan = MaxTime

====
